---------------------------- MODULE Spec2Model ----------------------------
(***************************************************************************)
(* Betting-Arbitrage: the name normalizer (core/normalizer.py), the two    *)
(* cross-source matchers (purify_data.purify_events and                    *)
(* core/matcher.EventMatcher.match_events) and the arbitrage detector      *)
(* (find_arbitrage.py), as state machines.                                 *)
(*                                                                         *)
(* A team name is a sequence of one-character strings.  Odds and every     *)
(* derived quantity are exact rationals [n, d]; Python's round(x, k) is    *)
(* RoundTo(x, k), the nearest multiple of 10^-k.                           *)
(***************************************************************************)
EXTENDS Integers, Sequences, FiniteSets, TLC

(***************************************************************************)
(* Bounds of the model.                                                    *)
(***************************************************************************)
\* total number of source records over all bookmakers in one matching pass
MaxEvents == 4
\* number of lines of purified_events.ndjson in one detection run
MaxLines == 3

(***************************************************************************)
(* Generic helpers.                                                        *)
(***************************************************************************)
Max(a, b) == IF a >= b THEN a ELSE b

Abs(a) == IF a < 0 THEN -a ELSE a

Range(s) == {s[k] : k \in 1..Len(s)}

RECURSIVE Concat(_)
Concat(ss) == IF ss = <<>> THEN <<>> ELSE Head(ss) \o Concat(Tail(ss))

IndexOf(s, x) == CHOOSE k \in 1..Len(s) : s[k] = x

(***************************************************************************)
(* Characters.  CodeOrder lists the model's alphabet in code-point order   *)
(* (the order Python compares strings by).                                 *)
(***************************************************************************)
UpperCase == <<"A","B","C","D","E","F","G","H","I","J","K","L","M",
               "N","O","P","Q","R","S","T","U","V","W","X","Y","Z">>

LowerCase == <<"a","b","c","d","e","f","g","h","i","j","k","l","m",
               "n","o","p","q","r","s","t","u","v","w","x","y","z">>

Digits == <<"0","1","2","3","4","5","6","7","8","9">>

\* "eacute" (U+00E9), "GAMMA" (U+0393) and "gamma" (U+03B3) are single
\* characters: the non-ASCII letters bookmakers quote (accented Latin, Greek),
\* with code points above every ASCII character.
CodeOrder == <<" ", "'", "(", ")", "-", ".">> \o Digits \o UpperCase
             \o <<"_">> \o LowerCase \o <<"eacute", "GAMMA", "gamma">>

Ord(c) == IndexOf(CodeOrder, c)

IsSpace(c) == c = " "

\* \w of a Python str pattern: letters, digits and the underscore
IsWord(c) == c \in Range(Digits) \cup Range(UpperCase) \cup Range(LowerCase)
                   \cup {"_", "eacute", "GAMMA", "gamma"}

\* str.lower(), one character
LowerChar(c) ==
    IF c \in Range(UpperCase) THEN LowerCase[IndexOf(UpperCase, c)]
    ELSE IF c = "GAMMA" THEN "gamma"
    ELSE c

lower(name) == [k \in 1..Len(name) |-> LowerChar(name[k])]

\* unidecode(), one character: ASCII is kept, anything else is transliterated
\* to ASCII
UnidecodeChar(c) ==
    CASE c = "eacute" -> <<"e">>
      [] c = "gamma"  -> <<"g">>
      [] c = "GAMMA"  -> <<"G">>
      [] OTHER   -> <<c>>

unidecode(name) == Concat([k \in 1..Len(name) |-> UnidecodeChar(name[k])])

(***************************************************************************)
(* The regular expressions of normalize_team_name.                         *)
(***************************************************************************)
EndsWith(name, suffix) ==
    /\ Len(name) >= Len(suffix)
    /\ SubSeq(name, Len(name) - Len(suffix) + 1, Len(name)) = suffix

RECURSIVE rstrip(_)
rstrip(name) ==
    IF name # <<>> /\ IsSpace(name[Len(name)])
    THEN rstrip(SubSeq(name, 1, Len(name) - 1))
    ELSE name

RECURSIVE lstrip(_)
lstrip(name) ==
    IF name # <<>> /\ IsSpace(Head(name)) THEN lstrip(Tail(name)) ELSE name

strip(name) == lstrip(rstrip(name))

\* re.sub(r'\s+<token>$', '', name): the token at the very end, with the
\* whole run of whitespace before it (at least one), is removed
StripSuffixToken(name, token) ==
    IF EndsWith(name, token)
    THEN LET rest == SubSeq(name, 1, Len(name) - Len(token))
         IN  IF rest # <<>> /\ IsSpace(rest[Len(rest)])
             THEN rstrip(rest)
             ELSE name
    ELSE name

\* re.sub(r'\s*\(<gamma>\)\s*$', '', name, flags=re.IGNORECASE)
StripFriendlyMarker(name) ==
    LET body == rstrip(name)
    IN  IF EndsWith(body, <<"(", "gamma", ")">>)
           \/ EndsWith(body, <<"(", "GAMMA", ")">>)
        THEN rstrip(SubSeq(body, 1, Len(body) - 3))
        ELSE name

\* re.sub(r'[.\-_]', ' ', name) followed by re.sub(r'[^\w\s]', ' ', name)
PunctToSpace(name) ==
    [k \in 1..Len(name) |->
        IF name[k] \in {".", "-", "_"} THEN " "
        ELSE IF ~IsWord(name[k]) /\ ~IsSpace(name[k]) THEN " "
        ELSE name[k]]

\* re.sub(r'\s+', ' ', name)
RECURSIVE CollapseSpaces(_)
CollapseSpaces(name) ==
    IF Len(name) < 2 THEN name
    ELSE IF IsSpace(name[1]) /\ IsSpace(name[2])
         THEN CollapseSpaces(Tail(name))
         ELSE <<name[1]>> \o CollapseSpaces(Tail(name))

\* core/normalizer.py normalize_team_name
normalize_team_name(name) ==
    IF name = <<>> THEN <<>>
    ELSE LET n1 == unidecode(lower(name))
             n2 == StripSuffixToken(n1, <<"f", "c">>)
             n3 == StripSuffixToken(n2, <<"c", "f">>)
             n4 == StripSuffixToken(n3, <<"s", "c">>)
             n5 == StripSuffixToken(n4, <<"a", "c">>)
             n6 == StripFriendlyMarker(n5)
         IN  strip(CollapseSpaces(PunctToSpace(n6)))

(***************************************************************************)
(* Exact rationals [n |-> numerator, d |-> denominator > 0], in lowest     *)
(* terms: the values of the program's floats.                              *)
(***************************************************************************)
RECURSIVE GCD(_, _)
GCD(a, b) == IF b = 0 THEN a ELSE GCD(b, a % b)

Rat(n, d) ==
    LET g == GCD(Abs(n), Abs(d))
        s == IF d < 0 THEN -1 ELSE 1
    IN  [n |-> (s * n) \div g, d |-> (s * d) \div g]

\* the operations reduce by common factors before they multiply
RatAdd(x, y) ==
    LET g == GCD(x.d, y.d)
    IN  Rat(x.n * (y.d \div g) + y.n * (x.d \div g), (x.d \div g) * y.d)

RatSub(x, y) ==
    LET g == GCD(x.d, y.d)
    IN  Rat(x.n * (y.d \div g) - y.n * (x.d \div g), (x.d \div g) * y.d)

RatMul(x, y) ==
    LET g1 == GCD(Abs(x.n), y.d)
        g2 == GCD(Abs(y.n), x.d)
    IN  Rat((x.n \div g1) * (y.n \div g2), (x.d \div g2) * (y.d \div g1))

RatDiv(x, y) == RatMul(x, Rat(y.d, y.n))

RatLess(x, y) ==
    LET g == GCD(x.d, y.d)
    IN  x.n * (y.d \div g) < y.n * (x.d \div g)

RatLeq(x, y) ==
    LET g == GCD(x.d, y.d)
    IN  x.n * (y.d \div g) <= y.n * (x.d \div g)

RatInt(k) == [n |-> k, d |-> 1]

RECURSIVE Pow10(_)
Pow10(k) == IF k = 0 THEN 1 ELSE 10 * Pow10(k - 1)

\* round(x, digits) for x >= 0, as the integer number of 10^-digits units:
\* the nearest one, the even one of two equally near.
RECURSIVE LongDiv(_, _, _, _)
LongDiv(q, r, d, digits) ==
    IF digits = 0 THEN <<q, r>>
    ELSE LongDiv(10 * q + ((10 * r) \div d), (10 * r) % d, d, digits - 1)

RoundTo(x, digits) ==
    LET qr == LongDiv(x.n \div x.d, x.n % x.d, x.d, digits)
        q  == qr[1]
        r  == qr[2]
    IN  IF 2 * r > x.d \/ (2 * r = x.d /\ q % 2 = 1) THEN q + 1 ELSE q

(***************************************************************************)
(* rapidfuzz.fuzz.token_sort_ratio, as called at core/normalizer.py:100.   *)
(***************************************************************************)
\* str.split(): the maximal runs of non-space characters, in order
RECURSIVE split(_)
split(name) ==
    LET s == lstrip(name)
    IN  IF s = <<>> THEN <<>>
        ELSE LET stop == IF \E k \in 1..Len(s) : IsSpace(s[k])
                         THEN (CHOOSE k \in 1..Len(s) :
                                  /\ IsSpace(s[k])
                                  /\ \A m \in 1..(k - 1) : ~IsSpace(s[m])) - 1
                         ELSE Len(s)
             IN  <<SubSeq(s, 1, stop)>> \o split(SubSeq(s, stop + 1, Len(s)))

\* s < t for Python strings: by code point, a proper prefix first
RECURSIVE StrLess(_, _)
StrLess(s, t) ==
    IF t = <<>> THEN FALSE
    ELSE IF s = <<>> THEN TRUE
    ELSE IF Ord(Head(s)) # Ord(Head(t)) THEN Ord(Head(s)) < Ord(Head(t))
    ELSE StrLess(Tail(s), Tail(t))

RECURSIVE InsertSorted(_, _)
InsertSorted(tok, sortedToks) ==
    IF sortedToks = <<>> THEN <<tok>>
    ELSE IF StrLess(tok, Head(sortedToks)) THEN <<tok>> \o sortedToks
    ELSE <<Head(sortedToks)>> \o InsertSorted(tok, Tail(sortedToks))

RECURSIVE SortTokens(_)
SortTokens(toks) ==
    IF toks = <<>> THEN <<>>
    ELSE InsertSorted(Head(toks), SortTokens(Tail(toks)))

RECURSIVE JoinTokens(_)
JoinTokens(toks) ==
    IF toks = <<>> THEN <<>>
    ELSE IF Len(toks) = 1 THEN Head(toks)
    ELSE Head(toks) \o <<" ">> \o JoinTokens(Tail(toks))

\* one row of the longest-common-subsequence table: cur[j + 1] is the LCS
\* length of the prefix ending in c and the first j characters of t
RECURSIVE LCSRow(_, _, _, _)
LCSRow(c, t, prev, cur) ==
    IF Len(cur) = Len(t) + 1 THEN cur
    ELSE LET j == Len(cur)
         IN  LCSRow(c, t, prev,
                    Append(cur, IF c = t[j] THEN prev[j] + 1
                                ELSE Max(prev[j + 1], cur[j])))

RECURSIVE LCSRows(_, _, _)
LCSRows(s, t, prev) ==
    IF s = <<>> THEN prev[Len(t) + 1]
    ELSE LCSRows(Tail(s), t, LCSRow(Head(s), t, prev, <<0>>))

LCSLen(s, t) == LCSRows(s, t, [j \in 1..(Len(t) + 1) |-> 0])

\* fuzz.ratio: the normalized Indel similarity, 100 * 2 * LCS / (|s| + |t|)
ratio(s, t) ==
    IF Len(s) + Len(t) = 0 THEN RatInt(100)
    ELSE Rat(200 * LCSLen(s, t), Len(s) + Len(t))

token_sort_ratio(s, t) ==
    ratio(JoinTokens(SortTokens(split(s))), JoinTokens(SortTokens(split(t))))

\* teams_match without the test for an empty normalized form
teams_match_unguarded(team1, team2, threshold) ==
    LET norm1 == normalize_team_name(team1)
        norm2 == normalize_team_name(team2)
    IN  IF norm1 = norm2 THEN TRUE
        ELSE RatLeq(RatInt(threshold), token_sort_ratio(norm1, norm2))


\* core/normalizer.py teams_match
teams_match(team1, team2, threshold) ==
    LET norm1 == normalize_team_name(team1)
        norm2 == normalize_team_name(team2)
    IN  IF norm1 = norm2 THEN TRUE
        ELSE IF norm1 = <<>> \/ norm2 = <<>> THEN FALSE
        ELSE RatLeq(RatInt(threshold), token_sort_ratio(norm1, norm2))

(***************************************************************************)
(* Events (core/models.py Event).  start is in minutes; booker is the key  *)
(* of the list the record is in (every scraper stamps its own BOOKMAKER,   *)
(* which is also the name of the file the list is read from).              *)
(***************************************************************************)
Olympiacos == <<"O", "l", "y", "m", "p", "i", "a", "c", "o", "s">>

OlympiacosU19 == <<"O", "l", "y", "m", "p", "i", "a", "c", "o", "s", " ", "U", "1", "9">>

PAOK == <<"P", "A", "O", "K">>

AEK == <<"A", "E", "K">>

Aris == <<"A", "r", "i", "s">>

\* the fixtures the bookmakers may list: one fixture quoted with three
\* kick-off times a quarter of an hour apart, and the fixture of the club's
\* under-19 team
EventPool ==
    { [home |-> Olympiacos,    away |-> PAOK, start |-> 0,
       league |-> "Super League"],
      [home |-> OlympiacosU19, away |-> PAOK, start |-> 0,
       league |-> "Super League U19"],
      [home |-> Olympiacos,    away |-> PAOK, start |-> 15,
       league |-> "Greece - Super League 1"],
      [home |-> Olympiacos,    away |-> PAOK, start |-> 30,
       league |-> "Super League"] }

\* key order of the input mapping events_by_bookmaker
BookmakerKeys == <<"novibet", "stoiximan", "bet365">>

(***************************************************************************)
(* The arbitrage detector: find_arbitrage.py.                              *)
(*                                                                         *)
(* A purified event (one line of purified_events.ndjson) is its 'events'   *)
(* mapping: a sequence, in iteration order, of                             *)
(* [bookmaker, markets], markets a mapping with the key "1x2" or without,  *)
(* and markets["1x2"] a mapping from some of the outcome codes to odds.    *)
(***************************************************************************)
None == "None"

\* the None that calculate_arbitrage returns
NoArbitrage == [none |-> TRUE]

Outcomes == <<"1", "X", "2">>

\* decimal odds written in hundredths: Odds(210) is 2.10
Odds(hundredths) == Rat(hundredths, 100)

Zero == RatInt(0)

\* a 'markets' mapping holding a 1x2 market with the outcomes given
Market3(h1, hX, h2) ==
    "1x2" :> (("1" :> Odds(h1)) @@ ("X" :> Odds(hX)) @@ ("2" :> Odds(h2)))

Market2(h1, hX) == "1x2" :> (("1" :> Odds(h1)) @@ ("X" :> Odds(hX)))

\* the 'markets' mappings a bookmaker may contribute for a fixture; the last
\* one holds no 1x2 market
MarketPool ==
    { Market3(210, 340, 360),
      Market3(200, 400, 360),
      Market3(190, 340, 450),
      Market3(210, 400, 450),
      Market3(200, 400, 400),
      Market3(112, 1355, 3000),
      Market2(200, 400),
      <<>> }

\* the comparison as "odds >= best": of equal top prices the last is kept
BestOddsUpdate_last(best, bookmaker, outcomes, outcome) ==
    IF outcome \notin DOMAIN outcomes THEN best
    ELSE LET odds == outcomes[outcome]
         IN  IF odds # Zero /\ RatLeq(best[outcome].odds, odds)
             THEN [best EXCEPT
                     ![outcome] = [odds |-> odds, bookmaker |-> bookmaker]]
             ELSE best

\* the body of "for outcome in ['1', 'X', '2']" for one outcome:
\* odds = outcomes.get(outcome); if odds and odds > best_odds[outcome]['odds']
BestOddsUpdate(best, bookmaker, outcomes, outcome) ==
    IF outcome \notin DOMAIN outcomes THEN best
    ELSE LET odds == outcomes[outcome]
         IN  IF odds # Zero /\ RatLess(best[outcome].odds, odds)
             THEN [best EXCEPT
                     ![outcome] = [odds |-> odds, bookmaker |-> bookmaker]]
             ELSE best

\* a bookmaker without the 1x2 market wiping out the quotes found so far
BestOddsEvent_reset(best, event_data) ==
    IF "1x2" \notin DOMAIN event_data.markets
    THEN [o \in Range(Outcomes) |-> [odds |-> Zero, bookmaker |-> None]]
    ELSE LET market_1x2 == event_data.markets["1x2"]
         IN  IF DOMAIN market_1x2 = {} THEN best
             ELSE BestOddsUpdate(
                      BestOddsUpdate(
                          BestOddsUpdate(best, event_data.bookmaker,
                                         market_1x2, "1"),
                          event_data.bookmaker, market_1x2, "X"),
                      event_data.bookmaker, market_1x2, "2")


\* the body of "for bookmaker, event_data in events.items()":
\* market_1x2 = markets.get('1x2'); if not market_1x2: continue
BestOddsEvent(best, event_data) ==
    IF "1x2" \notin DOMAIN event_data.markets THEN best
    ELSE LET market_1x2 == event_data.markets["1x2"]
         IN  IF DOMAIN market_1x2 = {} THEN best
             ELSE BestOddsUpdate(
                      BestOddsUpdate(
                          BestOddsUpdate(best, event_data.bookmaker,
                                         market_1x2, "1"),
                          event_data.bookmaker, market_1x2, "X"),
                      event_data.bookmaker, market_1x2, "2")

RECURSIVE BestOddsScan(_, _)
BestOddsScan(best, events) ==
    IF events = <<>> THEN best
    ELSE BestOddsScan(BestOddsEvent(best, Head(events)), Tail(events))

\* find_best_odds
find_best_odds(purified_event) ==
    BestOddsScan([o \in Range(Outcomes) |-> [odds |-> Zero, bookmaker |-> None]],
                 purified_event)

\* total_inverse = (1/odds_1) + (1/odds_X) + (1/odds_2)
TotalInverse(best) ==
    RatAdd(RatAdd(RatDiv(RatInt(1), best["1"].odds),
                  RatDiv(RatInt(1), best["X"].odds)),
           RatDiv(RatInt(1), best["2"].odds))

\* the guard "if not (odds_1 and odds_X and odds_2)" of calculate_arbitrage
OddsMissing(best) ==
    best["1"].odds = Zero \/ best["X"].odds = Zero \/ best["2"].odds = Zero

\* the guard as "if total_inverse > 1"
NoProfit_strict(total_inverse) == RatLess(RatInt(1), total_inverse)

\* the guard "if total_inverse >= 1"
NoProfit(total_inverse) == RatLeq(RatInt(1), total_inverse)

\* unique_bookmakers = len(bookmakers_needed)
UniqueBookmakers(best) ==
    Cardinality({best["1"].bookmaker, best["X"].bookmaker, best["2"].bookmaker})

\* is_executable with no bookmaker rule
IsExecutable_one(unique_bookmakers) == unique_bookmakers >= 1

\* is_executable = unique_bookmakers >= 2
IsExecutable(unique_bookmakers) == unique_bookmakers >= 2

\* the stake without the division by total_inverse
Stake_unscaled(best, outcome, total_stake) ==
    RatMul(RatDiv(RatInt(1), best[outcome].odds), RatInt(total_stake))

\* stake_o = (1/odds_o) / total_inverse * total_stake, before rounding
Stake(best, outcome, total_stake) ==
    RatMul(RatDiv(RatDiv(RatInt(1), best[outcome].odds), TotalInverse(best)),
           RatInt(total_stake))

\* the profit as total_stake times the rounded percentage
Profit_from_percentage(best, total_stake) ==
    RatMul(RatInt(total_stake),
           Rat(RoundTo(RatMul(RatSub(RatDiv(RatInt(1), TotalInverse(best)),
                                     RatInt(1)), RatInt(100)), 2), 10000))

\* profit = (total_stake / total_inverse) - total_stake, before rounding
Profit(best, total_stake) ==
    RatSub(RatDiv(RatInt(total_stake), TotalInverse(best)), RatInt(total_stake))

\* arbitrage_percentage = ((1 / total_inverse) - 1) * 100, before rounding
ArbitragePercentage(best) ==
    RatMul(RatSub(RatDiv(RatInt(1), TotalInverse(best)), RatInt(1)), RatInt(100))

\* calculate_arbitrage.  The rounded fields are integers: hundredths for
\* round(x, 2), ten-thousandths for round(x, 4).
calculate_arbitrage(best, total_stake) ==
    IF OddsMissing(best) THEN NoArbitrage
    ELSE IF NoProfit(TotalInverse(best)) THEN NoArbitrage
    ELSE [arbitrage_percentage |-> RoundTo(ArbitragePercentage(best), 2),
          total_inverse        |-> RoundTo(TotalInverse(best), 4),
          stake_distribution   |->
              [o \in Range(Outcomes) |-> RoundTo(Stake(best, o, total_stake), 2)],
          profit               |-> RoundTo(Profit(best, total_stake), 2),
          total_stake          |-> total_stake,
          unique_bookmakers    |-> UniqueBookmakers(best),
          is_executable        |-> IsExecutable(UniqueBookmakers(best))]

(***************************************************************************)
(* State.                                                                  *)
(***************************************************************************)
VARIABLES
    \* ---- one matching pass ------------------------------------------------
    mode,                 \* "purify": purify_events, "match": match_events
    events_by_bookmaker,  \* the input mapping: bookmaker key -> list of Event
    mpc,                  \* position of the pass: init, seed, scan, done
    bookmaker_names,      \* the bookmaker order of the pass, reference first
    i,                    \* index of the seed in the reference list
    bpos,                 \* position in bookmaker_names of the list scanned
    j,                    \* index in that list of the record tested next
    processed_indices,    \* bookmaker -> set of consumed indices
    purified,             \* the group under construction
    purified_events,      \* the groups returned
    attempts,             \* history: every group completed, kept or discarded
    added,                \* history: every add_event call [seed, booker, idx]
    match_memo,           \* the match predicates over EventPool, as sets of pairs
    \* ---- find_best_odds and calculate_arbitrage on one purified event -----
    opc,                  \* group, best, arb
    purified_event,       \* the 'events' of the purified event
    total_stake,          \* the total_stake argument
    best_odds,            \* result of find_best_odds
    arbitrage,            \* result of calculate_arbitrage
    \* ---- one detection run: find_arbitrage.main ---------------------------
    dpc,                  \* start, read, found, sorted, saved, done
    input_file,           \* purified_events.ndjson: [exists, lines]
    N8N_WEBHOOK_URL,      \* settings.N8N_WEBHOOK_URL
    output_file,          \* opportunities.ndjson: [exists, records]
    line_num,             \* line of the input read next
    opportunities,        \* the list built by find_all_arbitrage_opportunities
    computed,             \* history: the calculate_arbitrage result per line
    payload,              \* the JSON bodies handed to requests.post
    webhook_success,      \* what send_to_webhook returned: unset, true, false
    response,             \* history: what requests.post did, unset if not called
    \* ---- normalize_team_name and teams_match on a pair of names -----------
    npc,                  \* names, normalized, renormalized, compared
    name1,                \* the first name (team1 of teams_match)
    name2,                \* the second name (team2 of teams_match)
    name_threshold,       \* the threshold argument of teams_match
    normalized,           \* <<normalize_team_name(name1), ...(name2)>>
    renormalized,         \* normalize_team_name applied to normalized
    matched,              \* what teams_match returned: unset, TRUE, FALSE
    \* ---- load_events_from_ndjson on one file ------------------------------
    lpc,                  \* open, read, returned
    ndjson_file,          \* the file: [exists, lines]
    lnum,                 \* line read next
    loaded_events,        \* the list events
    load_log,             \* what was logged: none, warning, error
    \* ---- run_all.main followed by the loading loop of purify_data.main ----
    rpc,                  \* scrape, load, loaded
    raw_data_dir,         \* bookmaker -> contents of <bookmaker>.ndjson, or NoFile
    scraper,              \* position in SCRAPERS of the scraper processed next
    fetched,              \* history: what fetch_today did, per scraper
    loaded_by_bookmaker,  \* events_by_bookmaker as built by purify_data.main
    \* ---- purify_data.events_match on a pair of events ---------------------
    epc,                  \* events, compared
    pair,                 \* <<event1, event2>>
    time_threshold,       \* the time_threshold_minutes argument
    sim_threshold,        \* the similarity_threshold argument
    same_match,           \* what events_match returned: unset, TRUE, FALSE
    \* ---- get_best_match on a target and a list of candidates --------------
    gpc,                  \* search, found
    best_target,          \* the target argument
    best_candidates,      \* the candidates argument
    best_threshold,       \* the threshold argument
    best_result           \* what get_best_match returned

matchVars == <<mode, events_by_bookmaker, mpc, bookmaker_names, i, bpos, j,
               processed_indices, purified, purified_events, attempts, added,
               match_memo>>

oddsVars == <<opc, purified_event, total_stake, best_odds, arbitrage>>

detectVars == <<dpc, input_file, N8N_WEBHOOK_URL, output_file, line_num,
                opportunities, computed, payload, webhook_success, response>>

nameVars == <<npc, name1, name2, name_threshold, normalized, renormalized,
              matched>>

loadVars == <<lpc, ndjson_file, lnum, loaded_events, load_log>>

runVars == <<rpc, raw_data_dir, scraper, fetched, loaded_by_bookmaker>>

pairVars == <<epc, pair, time_threshold, sim_threshold, same_match>>

bestVars == <<gpc, best_target, best_candidates, best_threshold, best_result>>

vars == <<matchVars, oddsVars, detectVars, nameVars, loadVars, runVars,
          pairVars, bestVars>>

\* the variables a matching pass leaves alone
notMatch == <<oddsVars, detectVars, nameVars, loadVars, runVars,
               pairVars, bestVars>>

\* the variables find_best_odds and calculate_arbitrage leave alone
notOdds == <<matchVars, detectVars, nameVars, loadVars, runVars,
              pairVars, bestVars>>

\* the variables a detection run leaves alone
notDetect == <<matchVars, oddsVars, nameVars, loadVars, runVars,
                pairVars, bestVars>>

\* the variables normalize_team_name and teams_match leave alone
notNames == <<matchVars, oddsVars, detectVars, loadVars, runVars,
               pairVars, bestVars>>

\* the variables load_events_from_ndjson leaves alone
notLoad == <<matchVars, oddsVars, detectVars, nameVars, runVars,
              pairVars, bestVars>>

\* the variables run_all.main and the loading loop leave alone
notRun == <<matchVars, oddsVars, detectVars, nameVars, loadVars,
             pairVars, bestVars>>

\* the variables events_match leaves alone
notPair == <<matchVars, oddsVars, detectVars, nameVars, loadVars, runVars,
             bestVars>>

\* the variables get_best_match leaves alone
notBest == <<matchVars, oddsVars, detectVars, nameVars, loadVars, runVars,
             pairVars>>

(***************************************************************************)
(* find_best_odds and calculate_arbitrage applied to one purified event.   *)
(***************************************************************************)
\* the 'events' mappings of up to three bookmakers, in key order
EventsOver(markets) ==
    UNION { {[k \in 1..n |-> [bookmaker |-> BookmakerKeys[k], markets |-> ms[k]]]
             : ms \in [1..n -> markets]}
            : n \in 0..Len(BookmakerKeys) }

\* 1000 is the default of calculate_arbitrage
TotalStakes == {100, 1000}

FindBestOdds ==
    /\ opc = "group"
    /\ best_odds' = find_best_odds(purified_event)
    /\ opc' = "best"
    /\ UNCHANGED <<notOdds, purified_event, total_stake, arbitrage>>

CalculateArbitrage ==
    /\ opc = "best"
    /\ arbitrage' = calculate_arbitrage(best_odds, total_stake)
    /\ opc' = "arb"
    /\ UNCHANGED <<notOdds, purified_event, total_stake, best_odds>>

(***************************************************************************)
(* normalize_team_name and teams_match applied to a pair of names.         *)
(***************************************************************************)
Team == <<"T", "e", "a", "m">>

Milan == <<"M", "i", "l", "a", "n">>

RealMadrid == <<"R", "e", "a", "l", " ", "M", "a", "d", "r", "i", "d">>

Barcelona == <<"B", "a", "r", "c", "e", "l", "o", "n", "a">>

\* " (GAMMA)", the marker a bookmaker appends to the name of a team in a
\* friendly
FriendlyMarker == <<" ", "(", "GAMMA", ")">>

\* the names of the documented examples, names ending in one or several
\* club-type tokens or joined to one by punctuation, a name with the friendly
\* marker and a name of punctuation only
NamePool ==
    { <<>>,
      Team,
      RealMadrid,
      RealMadrid \o <<" ", "F", "C">>,
      <<"F", "C", " ">> \o Barcelona,
      <<"A", "C", " ">> \o Milan,
      Milan \o <<" ", "A", "C">>,
      Milan \o <<"-", "F", "C">>,
      Team \o <<".", "F", "C">>,
      Team \o <<" ", "F", "C", " ", "F", "C">>,
      Team \o <<" ", "F", "C", " ", "A", "C">>,
      Team \o <<" ", "A", "C", " ", "F", "C">>,
      Team \o <<" ", "B">>,
      Team \o <<" ", " ", "S", "C", " ">>,
      <<"A", "t", "h", "l", "eacute", "t", "i", "c", " ", "C", "F">>,
      Team \o FriendlyMarker,
      <<".">> }

\* 85 is the default of teams_match, 65 the threshold of purify_data.main,
\* 0 the least value of the documented range
Thresholds == {0, 65, 85}

\* name = normalize_team_name(name), for both names
Normalize ==
    /\ npc = "names"
    /\ normalized' = <<normalize_team_name(name1), normalize_team_name(name2)>>
    /\ npc' = "normalized"
    /\ UNCHANGED <<notNames, name1, name2, name_threshold, renormalized, matched>>

\* normalize_team_name applied to its own results
NormalizeAgain ==
    /\ npc = "normalized"
    /\ renormalized' = <<normalize_team_name(normalized[1]),
                         normalize_team_name(normalized[2])>>
    /\ npc' = "renormalized"
    /\ UNCHANGED <<notNames, name1, name2, name_threshold, normalized, matched>>

\* teams_match(name1, name2, name_threshold)
TeamsMatch ==
    /\ npc = "renormalized"
    /\ matched' = teams_match(name1, name2, name_threshold)
    /\ npc' = "compared"
    /\ UNCHANGED <<notNames, name1, name2, name_threshold, normalized,
                   renormalized>>


(***************************************************************************)
(* core/matcher.py load_events_from_ndjson on one file.                    *)
(***************************************************************************)
\* a line of a raw <bookmaker>.ndjson file: an Event as JSON, an empty line,
\* or text that Event.model_validate_json rejects
RawLinePool ==
    { [kind |-> "event", event |-> e] :
        e \in { [home |-> Olympiacos, away |-> PAOK, start |-> 0],
                [home |-> AEK,        away |-> Aris, start |-> 20] } }
    \cup { [kind |-> "blank"], [kind |-> "malformed"] }

\* open(filepath) raises FileNotFoundError, caught: a warning, events = []
LoadMissingFile ==
    /\ lpc = "open"
    /\ ~ndjson_file.exists
    /\ load_log' = "warning"
    /\ lpc' = "returned"
    /\ UNCHANGED <<notLoad, ndjson_file, lnum, loaded_events>>

\* events = []; the file is opened
LoadOpenFile ==
    /\ lpc = "open"
    /\ ndjson_file.exists
    /\ lnum' = 1
    /\ lpc' = "read"
    /\ UNCHANGED <<notLoad, ndjson_file, loaded_events, load_log>>

\* "if line:" is false for a line that is empty once stripped
LoadBlankLine ==
    /\ lpc = "read"
    /\ lnum <= Len(ndjson_file.lines)
    /\ ndjson_file.lines[lnum].kind = "blank"
    /\ lnum' = lnum + 1
    /\ UNCHANGED <<notLoad, lpc, ndjson_file, loaded_events, load_log>>

\* event = Event.model_validate_json(line); events.append(event)
LoadEventLine ==
    /\ lpc = "read"
    /\ lnum <= Len(ndjson_file.lines)
    /\ ndjson_file.lines[lnum].kind = "event"
    /\ loaded_events' = Append(loaded_events, ndjson_file.lines[lnum].event)
    /\ lnum' = lnum + 1
    /\ UNCHANGED <<notLoad, lpc, ndjson_file, load_log>>

\* model_validate_json raises inside the try that encloses the whole loop:
\* "except Exception" logs an error and the function returns what it has
LoadMalformedLine ==
    /\ lpc = "read"
    /\ lnum <= Len(ndjson_file.lines)
    /\ ndjson_file.lines[lnum].kind = "malformed"
    /\ load_log' = "error"
    /\ lpc' = "returned"
    /\ UNCHANGED <<notLoad, ndjson_file, lnum, loaded_events>>

\* the loop ends: return events
LoadReturn ==
    /\ lpc = "read"
    /\ lnum > Len(ndjson_file.lines)
    /\ lpc' = "returned"
    /\ UNCHANGED <<notLoad, ndjson_file, lnum, loaded_events, load_log>>


(***************************************************************************)
(* run_all.main, followed by the loading loop of purify_data.main.         *)
(*                                                                         *)
(* A raw file is known by the run that wrote it: "earlier" for a file an    *)
(* earlier run left in the raw data directory, "this" for one written by    *)
(* save_events in this run.  save_events is taken to succeed.               *)
(***************************************************************************)
SCRAPERS == <<"novibet", "stoiximan", "bet365", "bwin", "pamestoixima">>

NoFile == "NoFile"

\* events = scraper.fetch_today() is a non-empty list:
\* save_events(scraper.BOOKMAKER, events) rewrites <BOOKMAKER>.ndjson
FetchEvents ==
    /\ rpc = "scrape"
    /\ scraper <= Len(SCRAPERS)
    /\ raw_data_dir' = [raw_data_dir EXCEPT ![SCRAPERS[scraper]] = "this"]
    /\ fetched' = Append(fetched, "events")
    /\ scraper' = scraper + 1
    /\ UNCHANGED <<notRun, rpc, loaded_by_bookmaker>>

\* fetch_today returns an empty list: a warning, nothing is saved
FetchNothing ==
    /\ rpc = "scrape"
    /\ scraper <= Len(SCRAPERS)
    /\ fetched' = Append(fetched, "empty")
    /\ scraper' = scraper + 1
    /\ UNCHANGED <<notRun, rpc, raw_data_dir, loaded_by_bookmaker>>

\* fetch_today raises: "except Exception" logs the error, nothing is saved
FetchRaises ==
    /\ rpc = "scrape"
    /\ scraper <= Len(SCRAPERS)
    /\ fetched' = Append(fetched, "raised")
    /\ scraper' = scraper + 1
    /\ UNCHANGED <<notRun, rpc, raw_data_dir, loaded_by_bookmaker>>

\* the loop over SCRAPERS ends and run_all.main returns
ScrapingCompleted ==
    /\ rpc = "scrape"
    /\ scraper > Len(SCRAPERS)
    /\ rpc' = "load"
    /\ UNCHANGED <<notRun, raw_data_dir, scraper, fetched, loaded_by_bookmaker>>

\* purify_data.main: for ndjson_file in raw_data_dir.glob("*.ndjson"), the
\* events of the file are stored under the file's stem
LoadRawData ==
    /\ rpc = "load"
    /\ loaded_by_bookmaker' =
          [b \in {SCRAPERS[k] : k \in {m \in 1..Len(SCRAPERS) :
                                          raw_data_dir[SCRAPERS[m]] # NoFile}}
              |-> raw_data_dir[b]]
    /\ rpc' = "loaded"
    /\ UNCHANGED <<notRun, raw_data_dir, scraper, fetched>>


(***************************************************************************)
(* The matching pass: purify_data.purify_events and                        *)
(* core/matcher.EventMatcher.match_events.                                 *)
(***************************************************************************)
\* the keys of the input mapping, in key order
InputKeys(ebb) == SubSeq(BookmakerKeys, 1, Cardinality(DOMAIN ebb))

\* PurifiedEvent.__init__ / MatchedEvent.__init__; seed is the index of the
\* reference record the group was created for
NewGroup(event1, seed) ==
    [home |-> event1.home, away |-> event1.away, league |-> event1.league,
     seed |-> seed, bookmaker_events |-> <<>>]

\* add_event as a list append: a second record of a bookmaker is kept beside
\* the first
add_event_append(group, booker, idx) ==
    [group EXCEPT !.bookmaker_events =
        Append(@, [booker |-> booker, idx |-> idx])]

\* PurifiedEvent.add_event / MatchedEvent.add_event: a dict assignment, which
\* replaces the value of a key already present and keeps the key's position
add_event(group, booker, idx) ==
    LET evs == group.bookmaker_events
        new == [booker |-> booker, idx |-> idx]
    IN  [group EXCEPT !.bookmaker_events =
            IF \E k \in 1..Len(evs) : evs[k].booker = booker
            THEN [k \in 1..Len(evs) |->
                     IF evs[k].booker = booker THEN new ELSE evs[k]]
            ELSE Append(evs, new)]

\* get_bookmakers: the keys of bookmaker_events
get_bookmakers(group) ==
    [k \in 1..Len(group.bookmaker_events) |-> group.bookmaker_events[k].booker]

\* the time test with an exclusive bound
events_match_exclusive(event1, event2, time_threshold_minutes, similarity_threshold) ==
    IF Abs(event1.start - event2.start) >= time_threshold_minutes THEN FALSE
    ELSE /\ teams_match(event1.home, event2.home, similarity_threshold)
         /\ teams_match(event1.away, event2.away, similarity_threshold)

\* purify_data.events_match
events_match(event1, event2, time_threshold_minutes, similarity_threshold) ==
    IF Abs(event1.start - event2.start) > time_threshold_minutes THEN FALSE
    ELSE /\ teams_match(event1.home, event2.home, similarity_threshold)
         /\ teams_match(event1.away, event2.away, similarity_threshold)

\* EventMatcher.events_match, time_threshold = 15 minutes (the default)
EventMatcher_events_match(event1, event2) ==
    IF Abs(event1.start - event2.start) > 15 THEN FALSE
    ELSE IF strip(lower(event1.home)) # strip(lower(event2.home)) THEN FALSE
    ELSE IF strip(lower(event1.away)) # strip(lower(event2.away)) THEN FALSE
    ELSE TRUE

\* the match predicate of each pass over the fixtures of EventPool (the pairs
\* it holds of); purify_events is called with time_threshold = 15 and
\* similarity_threshold = 65.  match_memo holds these two sets, evaluated once
\* when the pass is set up.
PurifyMatches ==
    UNION { IF events_match(p[1], p[2], 15, 65) THEN {p} ELSE {}
            : p \in EventPool \X EventPool }

MatcherMatches ==
    UNION { IF EventMatcher_events_match(p[1], p[2]) THEN {p} ELSE {}
            : p \in EventPool \X EventPool }

Matches(m, event1, event2) == <<event1, event2>> \in match_memo[m]

\* sorted(keys, key=len(events), reverse=True): stable, so bookmakers with
\* equally many events keep their key order
RECURSIVE InsertByCount(_, _, _)
InsertByCount(ebb, key, names) ==
    IF names = <<>> THEN <<key>>
    ELSE IF Len(ebb[Head(names)]) >= Len(ebb[key])
         THEN <<Head(names)>> \o InsertByCount(ebb, key, Tail(names))
         ELSE <<key>> \o names

RECURSIVE SortByCount(_, _, _)
SortByCount(ebb, keys, names) ==
    IF keys = <<>> THEN names
    ELSE SortByCount(ebb, Tail(keys), InsertByCount(ebb, Head(keys), names))

\* the bookmakers left in key order
purify_bookmaker_names_unsorted(ebb) == InputKeys(ebb)


purify_bookmaker_names(ebb) == SortByCount(ebb, InputKeys(ebb), <<>>)

\* match_events taking the bookmaker with the most events as the reference
matcher_bookmaker_names_sorted(ebb) == SortByCount(ebb, InputKeys(ebb), <<>>)


matcher_bookmaker_names(ebb) == InputKeys(ebb)

\* the consumed check left out
IsConsumed_never(processed, bookmaker, idx) == FALSE

\* "if j in processed_indices[bookmaker]: continue"
IsConsumed(processed, bookmaker, idx) == idx \in processed[bookmaker]

\* the purifier's gate with the lenient matcher's minimum
purify_keep_two(group) == Len(get_bookmakers(group)) >= 2

\* the coverage gate of each pass
purify_keep(group) == Len(get_bookmakers(group)) >= 3

matcher_keep(group) == Len(get_bookmakers(group)) >= 2

Keep(m, group) == IF m = "purify" THEN purify_keep(group) ELSE matcher_keep(group)

first_bookmaker == bookmaker_names[1]

first_events == events_by_bookmaker[first_bookmaker]

\* the matching functions start: processed_indices, the early return on an
\* empty mapping, the bookmaker order
Begin ==
    /\ mpc = "init"
    /\ processed_indices' = [b \in DOMAIN events_by_bookmaker |-> {}]
    /\ IF DOMAIN events_by_bookmaker = {}
       THEN /\ mpc' = "done"
            /\ UNCHANGED <<bookmaker_names, i>>
       ELSE /\ bookmaker_names' =
                  IF mode = "purify"
                  THEN purify_bookmaker_names(events_by_bookmaker)
                  ELSE matcher_bookmaker_names(events_by_bookmaker)
            /\ i' = 1
            /\ mpc' = "seed"
    /\ UNCHANGED <<notMatch, match_memo, mode, events_by_bookmaker, bpos, j, purified,
                   purified_events, attempts, added>>

\* "for i, event1 in enumerate(first_events)": the next unconsumed reference
\* record seeds a new group
ForSeed ==
    /\ mpc = "seed"
    /\ i <= Len(first_events)
    /\ IF IsConsumed(processed_indices, first_bookmaker, i)
       THEN /\ i' = i + 1
            /\ UNCHANGED <<mpc, bpos, j, processed_indices, purified, added>>
       ELSE /\ purified' = add_event(NewGroup(first_events[i], i),
                                     first_bookmaker, i)
            /\ processed_indices' =
                  [processed_indices EXCEPT ![first_bookmaker] = @ \cup {i}]
            /\ added' = added \cup
                  {[seed |-> i, booker |-> first_bookmaker, idx |-> i]}
            /\ bpos' = 2
            /\ j' = 1
            /\ mpc' = "scan"
            /\ UNCHANGED i
    /\ UNCHANGED <<notMatch, match_memo, mode, events_by_bookmaker, bookmaker_names,
                   purified_events, attempts>>

\* the reference list is exhausted: return
Return ==
    /\ mpc = "seed"
    /\ i > Len(first_events)
    /\ mpc' = "done"
    /\ UNCHANGED <<notMatch, match_memo, mode, events_by_bookmaker, bookmaker_names, i, bpos, j,
                   processed_indices, purified, purified_events, attempts,
                   added>>

Scanning ==
    /\ mpc = "scan"
    /\ bpos <= Len(bookmaker_names)
    /\ j <= Len(events_by_bookmaker[bookmaker_names[bpos]])

\* a consumed record is passed over
ScanConsumed ==
    /\ Scanning
    /\ IsConsumed(processed_indices, bookmaker_names[bpos], j)
    /\ j' = j + 1
    /\ UNCHANGED <<notMatch, match_memo, mode, events_by_bookmaker, mpc, bookmaker_names, i, bpos,
                   processed_indices, purified, purified_events, attempts,
                   added>>

\* an unconsumed record that does not match the seed
ScanNoMatch ==
    /\ Scanning
    /\ LET bookmaker == bookmaker_names[bpos]
       IN  /\ ~IsConsumed(processed_indices, bookmaker, j)
           /\ ~Matches(mode, first_events[i], events_by_bookmaker[bookmaker][j])
    /\ j' = j + 1
    /\ UNCHANGED <<notMatch, match_memo, mode, events_by_bookmaker, mpc, bookmaker_names, i, bpos,
                   processed_indices, purified, purified_events, attempts,
                   added>>

\* a record is added to the group when it matches the member added last
\* instead of the seed
ScanMatch_chained ==
    /\ Scanning
    /\ LET bookmaker == bookmaker_names[bpos]
           last      == purified.bookmaker_events[Len(purified.bookmaker_events)]
       IN  /\ ~IsConsumed(processed_indices, bookmaker, j)
           /\ Matches(mode, events_by_bookmaker[last.booker][last.idx],
                      events_by_bookmaker[bookmaker][j])
           /\ purified' = add_event(purified, bookmaker, j)
           /\ processed_indices' =
                 [processed_indices EXCEPT ![bookmaker] = @ \cup {j}]
           /\ added' = added \cup {[seed |-> i, booker |-> bookmaker, idx |-> j]}
    /\ IF mode = "match"
       THEN bpos' = bpos + 1 /\ j' = 1
       ELSE bpos' = bpos /\ j' = j + 1
    /\ UNCHANGED <<notMatch, match_memo, mode, events_by_bookmaker, mpc,
                   bookmaker_names, i, purified_events, attempts>>


\* an unconsumed record that matches the seed is added and consumed;
\* match_events then leaves the list (break), purify_events scans on
ScanMatch ==
    /\ Scanning
    /\ LET bookmaker == bookmaker_names[bpos]
       IN  /\ ~IsConsumed(processed_indices, bookmaker, j)
           /\ Matches(mode, first_events[i], events_by_bookmaker[bookmaker][j])
           /\ purified' = add_event(purified, bookmaker, j)
           /\ processed_indices' =
                 [processed_indices EXCEPT ![bookmaker] = @ \cup {j}]
           /\ added' = added \cup {[seed |-> i, booker |-> bookmaker, idx |-> j]}
    /\ IF mode = "match"
       THEN bpos' = bpos + 1 /\ j' = 1
       ELSE bpos' = bpos /\ j' = j + 1
    /\ UNCHANGED <<notMatch, match_memo, mode, events_by_bookmaker, mpc, bookmaker_names, i,
                   purified_events, attempts>>

\* the list of one bookmaker is exhausted: on to the next bookmaker
NextBookmaker ==
    /\ mpc = "scan"
    /\ bpos <= Len(bookmaker_names)
    /\ j > Len(events_by_bookmaker[bookmaker_names[bpos]])
    /\ bpos' = bpos + 1
    /\ j' = 1
    /\ UNCHANGED <<notMatch, match_memo, mode, events_by_bookmaker, mpc, bookmaker_names, i,
                   processed_indices, purified, purified_events, attempts,
                   added>>

\* the kept group put in front of the list instead of at its end
KeepGroup_prepend ==
    /\ mpc = "scan"
    /\ bpos > Len(bookmaker_names)
    /\ Keep(mode, purified)
    /\ purified_events' = <<purified>> \o purified_events
    /\ attempts' = Append(attempts, purified)
    /\ i' = i + 1
    /\ mpc' = "seed"
    /\ UNCHANGED <<notMatch, match_memo, mode, events_by_bookmaker,
                   bookmaker_names, bpos, j, processed_indices, purified,
                   added>>

\* every bookmaker was scanned: the coverage gate keeps the group ...
KeepGroup ==
    /\ mpc = "scan"
    /\ bpos > Len(bookmaker_names)
    /\ Keep(mode, purified)
    /\ purified_events' = Append(purified_events, purified)
    /\ attempts' = Append(attempts, purified)
    /\ i' = i + 1
    /\ mpc' = "seed"
    /\ UNCHANGED <<notMatch, match_memo, mode, events_by_bookmaker, bookmaker_names, bpos, j,
                   processed_indices, purified, added>>

\* a dropped group gives its records back to later seeds
DiscardGroup_recycle ==
    /\ mpc = "scan"
    /\ bpos > Len(bookmaker_names)
    /\ ~Keep(mode, purified)
    /\ attempts' = Append(attempts, purified)
    /\ processed_indices' =
          [b \in DOMAIN processed_indices |->
              processed_indices[b] \
                  {e.idx : e \in {x \in Range(purified.bookmaker_events) :
                                     x.booker = b /\ b # first_bookmaker}}]
    /\ i' = i + 1
    /\ mpc' = "seed"
    /\ UNCHANGED <<notMatch, match_memo, mode, events_by_bookmaker,
                   bookmaker_names, bpos, j, purified, purified_events, added>>


\* ... or drops it
DiscardGroup ==
    /\ mpc = "scan"
    /\ bpos > Len(bookmaker_names)
    /\ ~Keep(mode, purified)
    /\ attempts' = Append(attempts, purified)
    /\ i' = i + 1
    /\ mpc' = "seed"
    /\ UNCHANGED <<notMatch, match_memo, mode, events_by_bookmaker, bookmaker_names, bpos, j,
                   processed_indices, purified, purified_events, added>>

(***************************************************************************)
(* purify_data.events_match applied to one pair of events.                 *)
(***************************************************************************)
AEKB == AEK \o <<" ", "B">>

\* two fixtures, each under two spellings, kicking off at three times
FixturePool ==
    { [home |-> h, away |-> a, start |-> s, league |-> "Super League"] :
        h \in {AEK, AEKB}, a \in {Aris, PAOK}, s \in {0, 15, 16} }

\* 15 is the default of time_threshold_minutes and the value of
\* purify_data.main
TimeThresholds == {10, 15}

\* 65 is the default of similarity_threshold and the value of
\* purify_data.main; token_sort_ratio("aek", "aek b") is 75
SimilarityThresholds == {65, 75, 76}

\* events_match(event1, event2, time_threshold, similarity_threshold)
EventsMatch ==
    /\ epc = "events"
    /\ same_match' = events_match(pair[1], pair[2], time_threshold,
                                  sim_threshold)
    /\ epc' = "compared"
    /\ UNCHANGED <<notPair, pair, time_threshold, sim_threshold>>

(***************************************************************************)
(* core/normalizer.get_best_match applied to one target and one list of    *)
(* candidates.                                                             *)
(***************************************************************************)
\* at most this many candidates
MaxCandidates == 3

\* (None, 0); best_match is <<>> for None and <<candidate>> otherwise
NoMatch == [best_match |-> <<>>, best_score |-> Zero]

\* a later candidate replacing the running best on an equal score
ScoreReplaces_or_equal(score, best_score) == RatLeq(best_score, score)

\* "if score > best_score"
ScoreReplaces(score, best_score) == RatLess(best_score, score)

\* "for candidate in candidates": candidates with an empty normalized form
\* are passed over, another replaces the running best on a greater score
RECURSIVE BestScan(_, _, _)
BestScan(target_norm, candidates, best) ==
    IF candidates = <<>> THEN best
    ELSE LET candidate      == Head(candidates)
             candidate_norm == normalize_team_name(candidate)
             score          == token_sort_ratio(target_norm, candidate_norm)
         IN  IF candidate_norm = <<>>
             THEN BestScan(target_norm, Tail(candidates), best)
             ELSE BestScan(target_norm, Tail(candidates),
                           IF ScoreReplaces(score, best.best_score)
                           THEN [best_match |-> <<candidate>>,
                                 best_score |-> score]
                           ELSE best)

get_best_match(target, candidates, threshold) ==
    LET target_norm == normalize_team_name(target)
        best        == BestScan(target_norm, candidates, NoMatch)
    IN  IF target_norm = <<>> THEN NoMatch
        ELSE IF RatLeq(RatInt(threshold), best.best_score) THEN best
        ELSE NoMatch

TeamB == Team \o <<" ", "B">>

BTeam == <<"B", " ">> \o Team

\* a name under three spellings, another club, and two names whose
\* normalized form is empty
CandidatePool == {Team, TeamB, BTeam, Milan, <<>>, <<".">>}

CandidateLists == UNION {[1..n -> CandidatePool] : n \in 0..MaxCandidates}

\* 85 is the default threshold
BestThresholds == {0, 85}

\* get_best_match(target, candidates, threshold)
GetBestMatch ==
    /\ gpc = "search"
    /\ best_result' = get_best_match(best_target, best_candidates,
                                     best_threshold)
    /\ gpc' = "found"
    /\ UNCHANGED <<notBest, best_target, best_candidates, best_threshold>>

(***************************************************************************)
(* The inputs of a pass: up to three bookmakers, MaxEvents records in all. *)
(***************************************************************************)
\* the ways of cutting n records into the lists of nb bookmakers: the list of
\* the k-th key is records c[k-1]+1 .. c[k]
Cuts(nb, n) ==
    {c \in [0..nb -> 0..n] :
        c[0] = 0 /\ c[nb] = n /\ \A k \in 1..nb : c[k - 1] <= c[k]}

InputOf(nb, c, all) ==
    [b \in Range(SubSeq(BookmakerKeys, 1, nb)) |->
        SubSeq(all, c[IndexOf(BookmakerKeys, b) - 1] + 1,
               c[IndexOf(BookmakerKeys, b)])]

\* events_by_bookmaker is a mapping of up to three bookmakers holding up to
\* budget records in all
MatchInputs(budget) ==
    \E nb \in 0..Len(BookmakerKeys), n \in 0..budget :
        \E c \in Cuts(nb, n), all \in [1..n -> EventPool] :
            events_by_bookmaker = InputOf(nb, c, all)

NoGroup ==
    [home |-> <<>>, away |-> <<>>, league |-> None, seed |-> 0,
     bookmaker_events |-> <<>>]

(***************************************************************************)
(* One detection run: find_arbitrage.main, which calls                     *)
(* find_all_arbitrage_opportunities and utils/webhook.send_to_webhook.     *)
(***************************************************************************)
\* the lines purified_events.ndjson may hold: purified events (the last one
\* with a bookmaker that lacks the 1x2 market and no quote for outcome 2), a
\* line that is not JSON, a blank line
LinePool ==
    { [kind |-> "event", events |-> ev] :
        ev \in { <<[bookmaker |-> "novibet",   markets |-> Market3(210, 340, 360)],
                   [bookmaker |-> "stoiximan", markets |-> Market3(200, 400, 360)],
                   [bookmaker |-> "bet365",    markets |-> Market3(190, 340, 450)]>>,
                 <<[bookmaker |-> "novibet",   markets |-> Market3(190, 340, 450)],
                   [bookmaker |-> "stoiximan", markets |-> Market3(200, 400, 360)]>>,
                 <<[bookmaker |-> "novibet",   markets |-> Market3(210, 400, 450)]>>,
                 <<[bookmaker |-> "novibet",   markets |-> Market3(210, 340, 360)]>>,
                 <<[bookmaker |-> "novibet",   markets |-> Market2(200, 400)],
                   [bookmaker |-> "stoiximan", markets |-> <<>>]>> } }
    \cup { [kind |-> "invalid"], [kind |-> "blank"] }

\* the opportunity record of find_all_arbitrage_opportunities; line stands
\* for the fixture's identity (home, away, start, bookmakers)
Opportunity(line, best, arb) ==
    [line                 |-> line,
     best_odds            |-> best,
     arbitrage_percentage |-> arb.arbitrage_percentage,
     total_inverse        |-> arb.total_inverse,
     total_stake          |-> arb.total_stake,
     stake_distribution   |-> arb.stake_distribution,
     profit               |-> arb.profit,
     unique_bookmakers    |-> arb.unique_bookmakers,
     is_executable        |-> arb.is_executable]

\* the filter without the executability test
IsIncluded_any(arb) == arb # NoArbitrage

\* "if arbitrage and arbitrage['is_executable']"
IsIncluded(arb) == arb # NoArbitrage /\ arb.is_executable

\* opportunities.sort(key=lambda x: x['arbitrage_percentage'], reverse=True):
\* stable, records of equal percentage keep their order
RECURSIVE InsertByPercentage(_, _)
InsertByPercentage(opp, sorted) ==
    IF sorted = <<>> THEN <<opp>>
    ELSE IF Head(sorted).arbitrage_percentage >= opp.arbitrage_percentage
         THEN <<Head(sorted)>> \o InsertByPercentage(opp, Tail(sorted))
         ELSE <<opp>> \o sorted

RECURSIVE SortByPercentage(_, _)
SortByPercentage(opps, sorted) ==
    IF opps = <<>> THEN sorted
    ELSE SortByPercentage(Tail(opps), InsertByPercentage(Head(opps), sorted))

\* the list left in file order
SortDescending_none(opps) == opps

SortDescending(opps) == SortByPercentage(opps, <<>>)

\* what the endpoint does with a POST: status 200, another status, a
\* timeout, a refused connection, any other exception
WebhookReplies == {"200", "500", "timeout", "refused", "error"}

\* send_to_webhook without the test of the status code
send_to_webhook_any_status(webhook_url, opps, reply) ==
    IF webhook_url = "" THEN [posted |-> <<>>, result |-> "false"]
    ELSE IF opps = <<>> THEN [posted |-> <<>>, result |-> "true"]
    ELSE [posted |-> <<[count |-> Len(opps), opportunities |-> opps]>>,
          result |-> IF reply \in {"200", "500"} THEN "true" ELSE "false"]


\* send_to_webhook: [posted |-> the bodies handed to requests.post,
\*                   result |-> the value returned]
send_to_webhook(webhook_url, opps, reply) ==
    IF webhook_url = "" THEN [posted |-> <<>>, result |-> "false"]
    ELSE IF opps = <<>> THEN [posted |-> <<>>, result |-> "true"]
    ELSE [posted |-> <<[count |-> Len(opps), opportunities |-> opps]>>,
          result |-> IF reply = "200" THEN "true" ELSE "false"]

\* find_all_arbitrage_opportunities begins: a missing input file returns []
OpenInput ==
    /\ dpc = "start"
    /\ opportunities' = <<>>
    /\ IF input_file.exists
       THEN line_num' = 1 /\ dpc' = "read"
       ELSE line_num' = 0 /\ dpc' = "found"
    /\ UNCHANGED <<notDetect, input_file, N8N_WEBHOOK_URL, output_file,
                   computed, payload, webhook_success,
                   response>>

\* a line json.loads rejects ending the reading of the file
SkipLine_stop ==
    /\ dpc = "read"
    /\ line_num <= Len(input_file.lines)
    /\ input_file.lines[line_num].kind \in {"blank", "invalid"}
    /\ IF input_file.lines[line_num].kind = "invalid"
       THEN dpc' = "found" /\ UNCHANGED line_num
       ELSE line_num' = line_num + 1 /\ UNCHANGED dpc
    /\ UNCHANGED <<notDetect, input_file, N8N_WEBHOOK_URL, output_file,
                   opportunities, computed, payload, webhook_success,
                   response>>

\* a blank line, or a line json.loads rejects, is passed over
SkipLine ==
    /\ dpc = "read"
    /\ line_num <= Len(input_file.lines)
    /\ input_file.lines[line_num].kind \in {"blank", "invalid"}
    /\ line_num' = line_num + 1
    /\ UNCHANGED <<notDetect, dpc, input_file, N8N_WEBHOOK_URL, output_file,
                   opportunities, computed, payload, webhook_success,
                   response>>

\* a purified event: best odds, arbitrage, and the record if it is executable
ProcessLine ==
    /\ dpc = "read"
    /\ line_num <= Len(input_file.lines)
    /\ input_file.lines[line_num].kind = "event"
    /\ LET best == find_best_odds(input_file.lines[line_num].events)
           arb  == calculate_arbitrage(best, 1000)
       IN  /\ computed' = computed @@ (line_num :> arb)
           /\ opportunities' =
                 IF IsIncluded(arb)
                 THEN Append(opportunities, Opportunity(line_num, best, arb))
                 ELSE opportunities
    /\ line_num' = line_num + 1
    /\ UNCHANGED <<notDetect, dpc, input_file, N8N_WEBHOOK_URL, output_file,
                   payload, webhook_success,
                   response>>

\* the file is read to its end: find_all_arbitrage_opportunities returns
EndOfInput ==
    /\ dpc = "read"
    /\ line_num > Len(input_file.lines)
    /\ dpc' = "found"
    /\ UNCHANGED <<notDetect, input_file, N8N_WEBHOOK_URL, output_file,
                   line_num, opportunities, computed, payload, webhook_success,
                   response>>

\* the output file opened for writing before the list is tested: an empty
\* result truncates it
NothingFound_truncate ==
    /\ dpc = "found"
    /\ opportunities = <<>>
    /\ output_file' = [exists |-> TRUE, records |-> <<>>]
    /\ dpc' = "done"
    /\ UNCHANGED <<notDetect, input_file, N8N_WEBHOOK_URL, line_num,
                   opportunities, computed, payload, webhook_success,
                   response>>


\* main, "if opportunities:" fails: nothing is written or sent
NothingFound ==
    /\ dpc = "found"
    /\ opportunities = <<>>
    /\ dpc' = "done"
    /\ UNCHANGED <<notDetect, input_file, N8N_WEBHOOK_URL, output_file,
                   line_num, opportunities, computed, payload, webhook_success,
                   response>>

\* main, "opportunities.sort(...)"
SortOpportunities ==
    /\ dpc = "found"
    /\ opportunities # <<>>
    /\ opportunities' = SortDescending(opportunities)
    /\ dpc' = "sorted"
    /\ UNCHANGED <<notDetect, input_file, N8N_WEBHOOK_URL, output_file,
                   line_num, computed, payload, webhook_success,
                   response>>

\* main, "with open(output_file, 'w')": the file is rewritten
SaveOpportunities ==
    /\ dpc = "sorted"
    /\ output_file' = [exists |-> TRUE, records |-> opportunities]
    /\ dpc' = "saved"
    /\ UNCHANGED <<notDetect, input_file, N8N_WEBHOOK_URL, line_num,
                   opportunities, computed, payload, webhook_success,
                   response>>

\* main, "if settings.N8N_WEBHOOK_URL:" holds: the batch is sent
SendWebhook ==
    /\ dpc = "saved"
    /\ N8N_WEBHOOK_URL # ""
    /\ \E reply \in WebhookReplies :
          LET sent == send_to_webhook(N8N_WEBHOOK_URL, opportunities, reply)
          IN  /\ payload' = payload \o sent.posted
              /\ webhook_success' = sent.result
              /\ response' = reply
    /\ dpc' = "done"
    /\ UNCHANGED <<notDetect, input_file, N8N_WEBHOOK_URL, output_file,
                   line_num, opportunities, computed>>

\* main, no webhook URL is configured: nothing is sent
NoWebhook ==
    /\ dpc = "saved"
    /\ N8N_WEBHOOK_URL = ""
    /\ dpc' = "done"
    /\ UNCHANGED <<notDetect, input_file, N8N_WEBHOOK_URL, output_file,
                   line_num, opportunities, computed, payload, webhook_success,
                   response>>

(***************************************************************************)
(* Specifications.  Each one runs one part of the program from its inputs  *)
(* and holds the other parts idle.                                         *)
(***************************************************************************)
\* no matching pass is under way
MatchIdle ==
    /\ match_memo = <<>>
    /\ mode = "idle"
    /\ events_by_bookmaker = <<>>
    /\ mpc = "idle"
    /\ bookmaker_names = <<>>
    /\ i = 0
    /\ bpos = 0
    /\ j = 0
    /\ processed_indices = <<>>
    /\ purified = NoGroup
    /\ purified_events = <<>>
    /\ attempts = <<>>
    /\ added = {}

NoBestOdds == [o \in Range(Outcomes) |-> [odds |-> Zero, bookmaker |-> None]]

\* find_best_odds is not being applied
OddsIdle ==
    /\ opc = "idle"
    /\ purified_event = <<>>
    /\ total_stake = 0
    /\ best_odds = NoBestOdds
    /\ arbitrage = NoArbitrage

\* no detection run is under way
DetectIdle ==
    /\ dpc = "idle"
    /\ input_file = [exists |-> FALSE, lines |-> <<>>]
    /\ N8N_WEBHOOK_URL = ""
    /\ output_file = [exists |-> FALSE, records |-> <<>>]
    /\ line_num = 0
    /\ opportunities = <<>>
    /\ computed = <<>>
    /\ payload = <<>>
    /\ webhook_success = "unset"
    /\ response = "unset"

\* normalize_team_name and teams_match are not being applied
NamesIdle ==
    /\ npc = "idle"
    /\ name1 = <<>>
    /\ name2 = <<>>
    /\ name_threshold = 0
    /\ normalized = <<>>
    /\ renormalized = <<>>
    /\ matched = "unset"

\* no file is being loaded
LoadIdle ==
    /\ lpc = "idle"
    /\ ndjson_file = [exists |-> FALSE, lines |-> <<>>]
    /\ lnum = 0
    /\ loaded_events = <<>>
    /\ load_log = "none"

\* no scraping run is under way
RunIdle ==
    /\ rpc = "idle"
    /\ raw_data_dir = <<>>
    /\ scraper = 0
    /\ fetched = <<>>
    /\ loaded_by_bookmaker = <<>>

\* events_match is not being applied
PairIdle ==
    /\ epc = "idle"
    /\ pair = <<>>
    /\ time_threshold = 0
    /\ sim_threshold = 0
    /\ same_match = "unset"

\* get_best_match is not being applied
BestIdle ==
    /\ gpc = "idle"
    /\ best_target = <<>>
    /\ best_candidates = <<>>
    /\ best_threshold = 0
    /\ best_result = NoMatch

MatchInit ==
    /\ match_memo = [purify |-> PurifyMatches, match |-> MatcherMatches]
    /\ mode \in {"purify", "match"}
    /\ MatchInputs(MaxEvents)
    /\ mpc = "init"
    /\ bookmaker_names = <<>>
    /\ i = 0
    /\ bpos = 0
    /\ j = 0
    /\ processed_indices = <<>>
    /\ purified = NoGroup
    /\ purified_events = <<>>
    /\ attempts = <<>>
    /\ added = {}
    /\ OddsIdle
    /\ DetectIdle
    /\ NamesIdle
    /\ LoadIdle
    /\ RunIdle
    /\ PairIdle
    /\ BestIdle

MatchNext ==
    \/ Begin
    \/ ForSeed
    \/ Return
    \/ ScanConsumed
    \/ ScanNoMatch
    \/ ScanMatch
    \/ NextBookmaker
    \/ KeepGroup
    \/ DiscardGroup

SpecMatch == MatchInit /\ [][MatchNext]_vars

\* find_best_odds and calculate_arbitrage on one purified event
OddsInit ==
    /\ opc = "group"
    /\ purified_event \in EventsOver(MarketPool)
    /\ total_stake \in TotalStakes
    /\ best_odds = NoBestOdds
    /\ arbitrage = NoArbitrage
    /\ MatchIdle
    /\ DetectIdle
    /\ NamesIdle
    /\ LoadIdle
    /\ RunIdle
    /\ PairIdle
    /\ BestIdle

OddsNext == FindBestOdds \/ CalculateArbitrage

SpecOdds == OddsInit /\ [][OddsNext]_vars

\* the input files of a detection run: missing, or up to MaxLines lines
InputFiles ==
    {[exists |-> FALSE, lines |-> <<>>]}
    \cup {[exists |-> TRUE, lines |-> ls] :
             ls \in UNION {[1..n -> LinePool] : n \in 0..MaxLines}}

\* what an earlier run left in opportunities.ndjson: no file, or the one
\* executable opportunity it found
EarlierOutputs ==
    LET ev   == <<[bookmaker |-> "novibet",   markets |-> Market3(190, 340, 450)],
                  [bookmaker |-> "stoiximan", markets |-> Market3(200, 400, 360)]>>
        best == find_best_odds(ev)
    IN  { [exists |-> FALSE, records |-> <<>>],
          [exists |-> TRUE,
           records |-> <<Opportunity(0, best, calculate_arbitrage(best, 1000))>>] }

DetectInit ==
    /\ dpc = "start"
    /\ input_file \in InputFiles
    /\ N8N_WEBHOOK_URL \in {"", "http://localhost:5678/webhook/arbitrage"}
    /\ output_file \in EarlierOutputs
    /\ line_num = 0
    /\ opportunities = <<>>
    /\ computed = <<>>
    /\ payload = <<>>
    /\ webhook_success = "unset"
    /\ response = "unset"
    /\ MatchIdle
    /\ OddsIdle
    /\ NamesIdle
    /\ LoadIdle
    /\ RunIdle
    /\ PairIdle
    /\ BestIdle

DetectNext ==
    \/ OpenInput
    \/ SkipLine
    \/ ProcessLine
    \/ EndOfInput
    \/ NothingFound
    \/ SortOpportunities
    \/ SaveOpportunities
    \/ SendWebhook
    \/ NoWebhook

SpecDetect == DetectInit /\ [][DetectNext]_vars

\* normalize_team_name and teams_match on a pair of names
NamesInit ==
    /\ npc = "names"
    /\ name1 \in NamePool
    /\ name2 \in NamePool
    /\ name_threshold \in Thresholds
    /\ normalized = <<>>
    /\ renormalized = <<>>
    /\ matched = "unset"
    /\ MatchIdle
    /\ OddsIdle
    /\ DetectIdle
    /\ LoadIdle
    /\ RunIdle
    /\ PairIdle
    /\ BestIdle

NamesNext == Normalize \/ NormalizeAgain \/ TeamsMatch

SpecNames == NamesInit /\ [][NamesNext]_vars


\* the raw files: missing, or up to MaxLines lines
RawFiles ==
    {[exists |-> FALSE, lines |-> <<>>]}
    \cup {[exists |-> TRUE, lines |-> ls] :
             ls \in UNION {[1..n -> RawLinePool] : n \in 0..MaxLines}}

\* load_events_from_ndjson on one file
LoadInit ==
    /\ lpc = "open"
    /\ ndjson_file \in RawFiles
    /\ lnum = 0
    /\ loaded_events = <<>>
    /\ load_log = "none"
    /\ MatchIdle
    /\ OddsIdle
    /\ DetectIdle
    /\ NamesIdle
    /\ RunIdle
    /\ PairIdle
    /\ BestIdle

LoadNext ==
    \/ LoadMissingFile
    \/ LoadOpenFile
    \/ LoadBlankLine
    \/ LoadEventLine
    \/ LoadMalformedLine
    \/ LoadReturn

SpecLoad == LoadInit /\ [][LoadNext]_vars


\* what earlier runs left in the raw data directory
RawDirectories == [Range(SCRAPERS) -> {NoFile, "earlier"}]

\* run_all.main, then the loading loop of purify_data.main
RunInit ==
    /\ rpc = "scrape"
    /\ raw_data_dir \in RawDirectories
    /\ scraper = 1
    /\ fetched = <<>>
    /\ loaded_by_bookmaker = <<>>
    /\ MatchIdle
    /\ OddsIdle
    /\ DetectIdle
    /\ NamesIdle
    /\ LoadIdle
    /\ PairIdle
    /\ BestIdle

RunNext ==
    \/ FetchEvents
    \/ FetchNothing
    \/ FetchRaises
    \/ ScrapingCompleted
    \/ LoadRawData

SpecRun == RunInit /\ [][RunNext]_vars


\* events_match on one pair of events
PairInit ==
    /\ epc = "events"
    /\ pair \in FixturePool \X FixturePool
    /\ time_threshold \in TimeThresholds
    /\ sim_threshold \in SimilarityThresholds
    /\ same_match = "unset"
    /\ MatchIdle
    /\ OddsIdle
    /\ DetectIdle
    /\ NamesIdle
    /\ LoadIdle
    /\ RunIdle
    /\ BestIdle

PairNext == EventsMatch

SpecPair == PairInit /\ [][PairNext]_vars

\* get_best_match on one target and one list of candidates
BestInit ==
    /\ gpc = "search"
    /\ best_target \in CandidatePool
    /\ best_candidates \in CandidateLists
    /\ best_threshold \in BestThresholds
    /\ best_result = NoMatch
    /\ MatchIdle
    /\ OddsIdle
    /\ DetectIdle
    /\ NamesIdle
    /\ LoadIdle
    /\ RunIdle
    /\ PairIdle

BestNext == GetBestMatch

SpecBest == BestInit /\ [][BestNext]_vars


(***************************************************************************)
(* Properties of a matching pass.                                          *)
(***************************************************************************)
\* the source record a group entry stands for
EventOf(entry) == events_by_bookmaker[entry.booker][entry.idx]

\* every group built so far: the completed ones and the one under construction
GroupsBuilt ==
    Range(attempts) \cup (IF mpc = "scan" THEN {purified} ELSE {})

\* number of distinct bookmakers contributing to a group
Coverage(group) ==
    Cardinality({group.bookmaker_events[k].booker
                    : k \in 1..Len(group.bookmaker_events)})

\* C1: greedy binding.  A record (bookmaker, index) that was added while
\* processing one seed is never added while processing another seed, and no
\* record is contained in two different groups, kept or discarded.
C1_GreedyBinding ==
    /\ \A a1 \in added : \A a2 \in added :
          (a1.booker = a2.booker /\ a1.idx = a2.idx) => a1.seed = a2.seed
    /\ \A g1 \in GroupsBuilt : \A g2 \in GroupsBuilt :
          g1.seed # g2.seed =>
             Range(g1.bookmaker_events) \cap Range(g2.bookmaker_events) = {}

\* a record consumed by seed A also matches a later seed B, whose group has
\* been completed without it
C1_Witness ==
    \E a \in added : \E g \in Range(attempts) :
        /\ g.seed > a.seed
        /\ a.booker # first_bookmaker
        /\ Matches(mode, first_events[g.seed], EventOf(a))
        /\ \A k \in 1..Len(g.bookmaker_events) :
              g.bookmaker_events[k] # [booker |-> a.booker, idx |-> a.idx]

\* C2: coverage gate.  Every group returned by purify_events has at least 3
\* distinct bookmakers and every group returned by match_events at least 2;
\* a completed group of coverage exactly 2 is returned by match_events and not
\* by purify_events.
C2_CoverageGate ==
    /\ \A k \in 1..Len(purified_events) :
          Coverage(purified_events[k]) >= (IF mode = "purify" THEN 3 ELSE 2)
    /\ \A k \in 1..Len(attempts) :
          Coverage(attempts[k]) = 2 =>
             ((attempts[k] \in Range(purified_events)) <=> (mode = "match"))

\* purify_events has completed and dropped a group of coverage exactly 2
C2_Witness ==
    /\ mode = "purify"
    /\ \E k \in 1..Len(attempts) :
          /\ Coverage(attempts[k]) = 2
          /\ attempts[k] \notin Range(purified_events)

\* C3: at most one Event per bookmaker in every group, in every state of a
\* pass and in every group returned.
C3_OneEventPerBookmaker ==
    \A g \in GroupsBuilt \cup Range(purified_events) :
        \A k1 \in 1..Len(g.bookmaker_events) :
            \A k2 \in 1..Len(g.bookmaker_events) :
                g.bookmaker_events[k1].booker = g.bookmaker_events[k2].booker
                    => k1 = k2

\* two records of one bookmaker were added to the group of the same seed
C3_Witness ==
    \E a1 \in added : \E a2 \in added :
        /\ a1.seed = a2.seed
        /\ a1.booker = a2.booker
        /\ a1.idx # a2.idx

\* the age-group and reserve qualifiers of the docstrings
Qualifiers == { <<"U", "1", "9">>, <<"U", "2", "1">>, <<"U", "2", "3">>, <<"B">> }

\* qualified is name followed by an age-group or reserve qualifier
IsQualifiedTeam(name, qualified) ==
    \E q \in Qualifiers : qualified = name \o <<" ">> \o q

\* C4: purify_events never groups, at the same start time, a team T with
\* "T <age-group or reserve qualifier>" (home against home, away against away).
C4_AgeGroupTeamsKeptApart ==
    mode = "purify" =>
        \A g \in GroupsBuilt :
            \A k1 \in 1..Len(g.bookmaker_events) :
                \A k2 \in 1..Len(g.bookmaker_events) :
                    LET e1 == EventOf(g.bookmaker_events[k1])
                        e2 == EventOf(g.bookmaker_events[k2])
                    IN  e1.start = e2.start =>
                            /\ ~IsQualifiedTeam(e1.home, e2.home)
                            /\ ~IsQualifiedTeam(e1.away, e2.away)

(***************************************************************************)
(* Properties of find_best_odds and calculate_arbitrage.                   *)
(***************************************************************************)
\* the positions, in iteration order, of the bookmakers quoting outcome o
Quoting(events, o) ==
    {k \in 1..Len(events) :
        /\ "1x2" \in DOMAIN events[k].markets
        /\ o \in DOMAIN events[k].markets["1x2"]}

QuoteOf(events, k, o) == events[k].markets["1x2"][o]

\* C5: for each outcome with at least one quote, find_best_odds reports the
\* maximum quoted price, attributed to the first bookmaker in iteration
\* order that quotes it.
C5_BestOddsIsFirstMaximum ==
    opc \in {"best", "arb"} =>
        \A o \in Range(Outcomes) :
            LET q == Quoting(purified_event, o)
            IN  q # {} =>
                  /\ \A k \in q :
                        RatLeq(QuoteOf(purified_event, k, o), best_odds[o].odds)
                  /\ \E k \in q :
                        /\ QuoteOf(purified_event, k, o) = best_odds[o].odds
                        /\ best_odds[o].bookmaker = purified_event[k].bookmaker
                        /\ \A m \in q :
                              m < k => QuoteOf(purified_event, m, o)
                                          # best_odds[o].odds

\* two bookmakers quote the same top price for an outcome
C5_Witness ==
    /\ opc = "best"
    /\ \E o \in Range(Outcomes) :
          \E k1 \in Quoting(purified_event, o) :
              \E k2 \in Quoting(purified_event, o) :
                  /\ k1 < k2
                  /\ QuoteOf(purified_event, k1, o) = best_odds[o].odds
                  /\ QuoteOf(purified_event, k2, o) = best_odds[o].odds

AnyOddsZero(best) == \E o \in Range(Outcomes) : best[o].odds.n = 0

\* 1/odds_1 + 1/odds_X + 1/odds_2, all three odds positive
SumOfReciprocals(best) ==
    RatAdd(RatAdd(Rat(best["1"].odds.d, best["1"].odds.n),
                  Rat(best["X"].odds.d, best["X"].odds.n)),
           Rat(best["2"].odds.d, best["2"].odds.n))

Distinct3(a, b, c) ==
    IF a = b /\ b = c THEN 1
    ELSE IF a # b /\ b # c /\ a # c THEN 3
    ELSE 2

\* C7: unique_bookmakers is the number of distinct bookmakers among the
\* three picks, is_executable holds iff it is >= 2, and three picks from one
\* bookmaker are not executable.
C7_ExecutableIffTwoBookmakers ==
    (opc = "arb" /\ arbitrage # NoArbitrage) =>
        /\ arbitrage.unique_bookmakers =
              Distinct3(best_odds["1"].bookmaker, best_odds["X"].bookmaker,
                        best_odds["2"].bookmaker)
        /\ arbitrage.is_executable <=> (arbitrage.unique_bookmakers >= 2)
        /\ (/\ best_odds["1"].bookmaker = best_odds["X"].bookmaker
            /\ best_odds["X"].bookmaker = best_odds["2"].bookmaker)
              => ~arbitrage.is_executable

\* an opportunity whose three best odds come from one bookmaker
C7_Witness ==
    /\ opc = "arb"
    /\ arbitrage # NoArbitrage
    /\ best_odds["1"].bookmaker = best_odds["X"].bookmaker
    /\ best_odds["X"].bookmaker = best_odds["2"].bookmaker
    /\ ~arbitrage.is_executable

\* C10: before rounding, stake_o * odds_o is total_stake / total_inverse for
\* each outcome, the three stakes sum to total_stake, and that payout minus
\* total_stake is the profit.
C10_StakesEqualizePayout ==
    (opc = "arb" /\ arbitrage # NoArbitrage) =>
        LET payout == RatDiv(RatInt(total_stake), SumOfReciprocals(best_odds))
        IN  /\ \A o \in Range(Outcomes) :
                  RatMul(Stake(best_odds, o, total_stake), best_odds[o].odds)
                      = payout
            /\ RatAdd(RatAdd(Stake(best_odds, "1", total_stake),
                             Stake(best_odds, "X", total_stake)),
                      Stake(best_odds, "2", total_stake)) = RatInt(total_stake)
            /\ RatSub(payout, RatInt(total_stake))
                  = Profit(best_odds, total_stake)

\* an opportunity over three different bookmakers
C10_Witness ==
    /\ opc = "arb"
    /\ arbitrage # NoArbitrage
    /\ arbitrage.unique_bookmakers = 3

(***************************************************************************)
(* Properties of a detection run.                                          *)
(***************************************************************************)
\* the records in the opportunities file and in the bodies sent
Persisted == Range(output_file.records)

Forwarded == UNION {Range(payload[k].opportunities) : k \in 1..Len(payload)}

\* line k of the input is a purified event whose opportunity is executable
ExecutableLine(k) ==
    /\ input_file.lines[k].kind = "event"
    /\ LET arb == calculate_arbitrage(
                      find_best_odds(input_file.lines[k].events), 1000)
       IN  arb # NoArbitrage /\ arb.is_executable

\* an opportunity was computed for line k and is not executable
NonExecutableLine(k) ==
    /\ k \in DOMAIN computed
    /\ computed[k] # NoArbitrage
    /\ ~computed[k].is_executable

\* the claim as stated: every executable fixture is in the file and in
\* the webhook payload
C8_PresentInBoth ==
    /\ \A r \in Persisted \cup Forwarded : r.is_executable
    /\ dpc = "done" =>
          \A k \in 1..Len(input_file.lines) :
              ExecutableLine(k) =>
                  /\ \E r \in Persisted : r.line = k
                  /\ \E r \in Forwarded : r.line = k

\* C8 (amended): every record written or sent is executable, no
\* non-executable opportunity is written or sent, and when the run is over
\* every executable fixture of the input is in the file, and in the webhook
\* payload if a webhook URL is configured.
C8_OnlyExecutablePersisted ==
    /\ \A r \in Persisted \cup Forwarded : r.is_executable
    /\ \A r \in Persisted \cup Forwarded : ~NonExecutableLine(r.line)
    /\ dpc = "done" =>
          \A k \in 1..Len(input_file.lines) :
              ExecutableLine(k) =>
                  /\ \E r \in Persisted : r.line = k
                  /\ N8N_WEBHOOK_URL # "" => \E r \in Forwarded : r.line = k

\* a finished run with a webhook: an executable fixture written and sent, and
\* a non-executable opportunity computed
C8_Witness ==
    /\ dpc = "done"
    /\ N8N_WEBHOOK_URL # ""
    /\ \E k \in 1..Len(input_file.lines) :
          /\ ExecutableLine(k)
          /\ \E r \in Persisted : r.line = k
          /\ \E r \in Forwarded : r.line = k
    /\ \E k \in 1..Len(input_file.lines) : NonExecutableLine(k)

SortedDescending(records) ==
    \A k \in 1..(Len(records) - 1) :
        records[k].arbitrage_percentage >= records[k + 1].arbitrage_percentage

\* C9: the records of the opportunities file, and of every batch sent to the
\* webhook, are in non-increasing order of arbitrage_percentage.
C9_SortedByPercentage ==
    /\ SortedDescending(output_file.records)
    /\ \A k \in 1..Len(payload) : SortedDescending(payload[k].opportunities)

\* a finished run that wrote and sent two records in the reverse of their
\* input order
C9_Witness ==
    /\ dpc = "done"
    /\ payload # <<>>
    /\ \E k \in 1..(Len(output_file.records) - 1) :
          /\ output_file.records[k].line > output_file.records[k + 1].line
          /\ output_file.records[k].arbitrage_percentage
                > output_file.records[k + 1].arbitrage_percentage
          /\ payload[1].opportunities = output_file.records

(***************************************************************************)
(* The worked example of the arbitrage arithmetic.                         *)
(***************************************************************************)
\* best odds 2.10 / 4.00 / 4.50 at three different bookmakers, stake 1000
IsWorkedExample ==
    /\ opc = "arb"
    /\ best_odds["1"].odds = Odds(210)
    /\ best_odds["X"].odds = Odds(400)
    /\ best_odds["2"].odds = Odds(450)
    /\ Distinct3(best_odds["1"].bookmaker, best_odds["X"].bookmaker,
                 best_odds["2"].bookmaker) = 3
    /\ total_stake = 1000

\* the claim as stated: profit is reported as 54.40
C11_ProfitIs5440 ==
    IsWorkedExample =>
        /\ arbitrage # NoArbitrage
        /\ arbitrage.total_inverse = 9484
        /\ arbitrage.arbitrage_percentage = 544
        /\ arbitrage.profit = 5440
        /\ arbitrage.is_executable

\* C11 (amended): for best odds 2.10 / 4.00 / 4.50 at three distinct
\* bookmakers and total_stake = 1000, calculate_arbitrage returns an
\* opportunity with total_inverse 0.9484, arbitrage_percentage 5.44,
\* profit 54.39 and is_executable true.
C11_WorkedExample ==
    IsWorkedExample =>
        /\ arbitrage # NoArbitrage
        /\ arbitrage.total_inverse = 9484
        /\ arbitrage.arbitrage_percentage = 544
        /\ arbitrage.profit = 5439
        /\ arbitrage.is_executable

\* calculate_arbitrage has been applied to the worked example
C11_Witness ==
    /\ IsWorkedExample
    /\ arbitrage # NoArbitrage
    /\ arbitrage.unique_bookmakers = 3

(***************************************************************************)
(* Properties of normalize_team_name and teams_match.                      *)
(***************************************************************************)
\* C12: normalize_team_name is idempotent: applied to its own result it
\* returns that result.
C12_Idempotent ==
    npc \in {"renormalized", "compared"} => renormalized = normalized

\* the club-type suffix tokens
SuffixTokens == { <<"f", "c">>, <<"c", "f">>, <<"s", "c">>, <<"a", "c">> }

\* the whitespace-delimited tokens of the lowercased name
LowerTokens(name) == split(unidecode(lower(name)))

\* the tokens left of a token list once punctuation has become spaces
Cosmetic(toks) == split(PunctToSpace(JoinTokens(toks)))

\* C13: normalize_team_name removes at most the last whitespace-delimited
\* token of the lowercased name, and that only if it is fc, cf, sc or ac;
\* every other token stays.  normalize("Real Madrid FC") equals
\* normalize("Real Madrid") and normalize("FC Barcelona") retains "fc".
C13_OnlyFinalSuffixRemoved ==
    npc \in {"normalized", "renormalized", "compared"} =>
        /\ \A k \in 1..2 :
              LET name == IF k = 1 THEN name1 ELSE name2
                  toks == LowerTokens(name)
                  kept == split(normalized[k])
              IN  \/ kept = Cosmetic(toks)
                  \/ /\ Len(toks) >= 2
                     /\ toks[Len(toks)] \in SuffixTokens
                     /\ kept = Cosmetic(SubSeq(toks, 1, Len(toks) - 1))
        /\ (name1 = RealMadrid \o <<" ", "F", "C">> /\ name2 = RealMadrid)
              => normalized[1] = normalized[2]
        /\ name1 = <<"F", "C", " ">> \o Barcelona
              => <<"f", "c">> \in Range(split(normalized[1]))

\* the two names hold the same tokens, in a different order
SameTokensReordered(a, b) ==
    /\ split(a) # split(b)
    /\ SortTokens(split(a)) = SortTokens(split(b))

\* C14: two names that differ only in the order of their whitespace-delimited
\* tokens, such as "AC Milan" and "Milan AC", match at the default threshold 85.
C14_WordOrderInvariance ==
    (/\ npc = "compared"
     /\ name_threshold = 85
     /\ SameTokensReordered(name1, name2)) => matched = TRUE


(***************************************************************************)
(* Properties of load_events_from_ndjson.                                  *)
(***************************************************************************)
\* the Events of the well-formed lines, in file order
RECURSIVE WellFormedEvents(_)
WellFormedEvents(lines) ==
    IF lines = <<>> THEN <<>>
    ELSE (IF Head(lines).kind = "event" THEN <<Head(lines).event>> ELSE <<>>)
         \o WellFormedEvents(Tail(lines))

\* C15: load_events_from_ndjson returns the Events of all well-formed lines,
\* those before and those after each malformed line, in file order; a missing
\* file yields the empty list; the function always returns.
C15_MalformedLinesSkipped ==
    lpc = "returned" =>
        /\ loaded_events = WellFormedEvents(ndjson_file.lines)
        /\ ~ndjson_file.exists => loaded_events = <<>>


(***************************************************************************)
(* Properties of a scraping run.                                           *)
(***************************************************************************)
\* C16: a scraper whose fetch_today raises does not abort the run: every
\* scraper of SCRAPERS is invoked and the events of those that returned some
\* are saved; and the purification run that follows reads no events for a
\* bookmaker whose scraper raised.
C16_FailedSourceContributesNothing ==
    /\ rpc \in {"load", "loaded"} =>
          /\ Len(fetched) = Len(SCRAPERS)
          /\ \A k \in 1..Len(SCRAPERS) :
                fetched[k] = "events" => raw_data_dir[SCRAPERS[k]] = "this"
    /\ rpc = "loaded" =>
          \A k \in 1..Len(SCRAPERS) :
              fetched[k] = "raised" =>
                  SCRAPERS[k] \notin DOMAIN loaded_by_bookmaker


(***************************************************************************)
(* Delivery to the webhook.                                                *)
(***************************************************************************)
\* C17: send_to_webhook returns, with false when the POST times out, is
\* refused, fails otherwise or is answered with a status other than 200, and
\* with true only after a 200 (or when there is nothing to send); when the
\* webhook is called the opportunities file already holds every record, and
\* it still holds exactly those after a failed delivery.
C17_DeliveryFailureNonFatal ==
    /\ response # "unset" =>
          /\ dpc = "done"
          /\ webhook_success \in {"true", "false"}
          /\ webhook_success = "true" <=> response = "200"
          /\ output_file.exists
          /\ output_file.records = opportunities
          /\ payload[Len(payload)].opportunities = output_file.records
    /\ \A reply \in WebhookReplies :
          send_to_webhook("http://localhost:5678/webhook/arbitrage", <<>>, reply)
              = [posted |-> <<>>, result |-> "true"]

\* the POST timed out after the file was written
C17_Witness ==
    /\ dpc = "done"
    /\ response = "timeout"
    /\ webhook_success = "false"
    /\ output_file.records # <<>>
    /\ output_file.records = opportunities


(***************************************************************************)
(* Further properties of a matching pass.                                  *)
(***************************************************************************)
\* record idx of bookmaker b was consumed by a seed before seed s
ConsumedBefore(b, idx, s) ==
    \E a \in added : a.booker = b /\ a.idx = idx /\ a.seed < s

\* C18: in purify_events, for one seed and one non-reference bookmaker, only
\* the first not-yet-consumed record matching the seed is added and consumed;
\* later matching records of that bookmaker are not consumed by that seed.
C18_OnlyFirstMatchConsumed ==
    mode = "purify" =>
        \A a \in added :
            a.booker # first_bookmaker =>
                /\ \A a2 \in added :
                      (a2.seed = a.seed /\ a2.booker = a.booker)
                          => a2.idx = a.idx
                /\ \A m \in 1..(a.idx - 1) :
                      Matches(mode, first_events[a.seed],
                              events_by_bookmaker[a.booker][m])
                          => ConsumedBefore(a.booker, m, a.seed)

\* the completed groups that failed the coverage gate
Discarded == {g \in Range(attempts) : g \notin Range(purified_events)}

\* C19: consumed records stay consumed.  Every record ever added to a group
\* is in the consumed set of its bookmaker, and the records of a discarded
\* group are in no group of a later seed.
C19_DiscardedStayConsumed ==
    /\ \A a \in added : a.idx \in processed_indices[a.booker]
    /\ \A d \in Discarded :
          \A e \in Range(d.bookmaker_events) :
              /\ e.idx \in processed_indices[e.booker]
              /\ \A g \in GroupsBuilt :
                    g.seed > d.seed => e \notin Range(g.bookmaker_events)

\* a record of a discarded group also matches a later seed, whose group was
\* completed without it
C19_Witness ==
    \E d \in Discarded : \E g \in Range(attempts) :
        \E e \in Range(d.bookmaker_events) :
            /\ g.seed > d.seed
            /\ e.booker # first_bookmaker
            /\ Matches(mode, first_events[g.seed], EventOf(e))
            /\ e \notin Range(g.bookmaker_events)

\* number of events of a bookmaker of the input
EventCount(b) == Len(events_by_bookmaker[b])

\* C20: the reference bookmaker of purify_events has the largest number of
\* events, and among the bookmakers with that number it is the first in the
\* key order of the input mapping.
C20_ReferenceHasMostEvents ==
    (mode = "purify" /\ bookmaker_names # <<>>) =>
        LET keys == InputKeys(events_by_bookmaker)
            ref  == IndexOf(keys, first_bookmaker)
        IN  /\ \A k \in 1..Len(keys) :
                  EventCount(keys[k]) <= EventCount(first_bookmaker)
            /\ \A k \in 1..(ref - 1) :
                  EventCount(keys[k]) < EventCount(first_bookmaker)

\* two bookmakers tie for the largest number of events and the first key of
\* the input has fewer
C20_Witness ==
    /\ mode = "purify"
    /\ bookmaker_names # <<>>
    /\ LET keys == InputKeys(events_by_bookmaker)
       IN  /\ EventCount(keys[1]) < EventCount(first_bookmaker)
           /\ \E k \in 1..Len(keys) :
                 /\ keys[k] # first_bookmaker
                 /\ EventCount(keys[k]) = EventCount(first_bookmaker)


(***************************************************************************)
(* Order and labels of the groups of a matching pass.                      *)
(***************************************************************************)
\* the entry of the reference bookmaker in a group
SeedEntry(group) == [booker |-> first_bookmaker, idx |-> group.seed]

TimeClose == Abs(pair[1].start - pair[2].start) <= time_threshold

HomeMatch == teams_match(pair[1].home, pair[2].home, sim_threshold)

AwayMatch == teams_match(pair[1].away, pair[2].away, sim_threshold)

\* C22: events_match(e1, e2) is true exactly when |e1.start - e2.start| <=
\* time_threshold and the home names match and the away names match at the
\* similarity threshold; the bounds are inclusive, and the failure of any
\* one of the three conditions makes it false.
C22_MatchPredicate ==
    epc = "compared" =>
        /\ same_match \in BOOLEAN
        /\ same_match <=> (TimeClose /\ HomeMatch /\ AwayMatch)
        /\ ~TimeClose => ~same_match
        /\ ~HomeMatch => ~same_match
        /\ ~AwayMatch => ~same_match

\* the starts are exactly time_threshold apart and the home names score
\* exactly the similarity threshold: the events match
C22_Witness ==
    /\ epc = "compared"
    /\ Abs(pair[1].start - pair[2].start) = time_threshold
    /\ token_sort_ratio(normalize_team_name(pair[1].home),
                        normalize_team_name(pair[2].home))
          = RatInt(sim_threshold)
    /\ same_match = TRUE


(***************************************************************************)
(* Outcomes without a quote.                                               *)
(***************************************************************************)
HasMarket(event_data) == "1x2" \in DOMAIN event_data.markets

\* C23: in the result of find_best_odds an outcome that no bookmaker of the
\* group quotes has odds = 0 and bookmaker = none; the bookmakers lacking
\* the 1x2 market do not affect the result, which is that of the other
\* bookmakers alone; and for every outcome odds = 0 exactly when bookmaker
\* is none.
C23_NoQuoteIsZeroAndNone ==
    opc \in {"best", "arb"} =>
        /\ \A o \in Range(Outcomes) :
              Quoting(purified_event, o) = {} =>
                  best_odds[o] = [odds |-> Zero, bookmaker |-> None]
        /\ best_odds = find_best_odds(SelectSeq(purified_event, HasMarket))
        /\ \A o \in Range(Outcomes) :
              best_odds[o].odds = Zero <=> best_odds[o].bookmaker = None

\* one bookmaker of the group lacks the 1x2 market, nobody quotes outcome 2,
\* and outcome 1 is quoted by a bookmaker listed after the one without market
C23_Witness ==
    /\ opc = "best"
    /\ \E k \in 1..Len(purified_event) :
          /\ ~HasMarket(purified_event[k])
          /\ \E m \in Quoting(purified_event, "1") : m > k
    /\ Quoting(purified_event, "2") = {}
    /\ best_odds["2"] = [odds |-> Zero, bookmaker |-> None]
    /\ best_odds["1"].bookmaker # None


(***************************************************************************)
(* The friendly marker.                                                    *)
(***************************************************************************)
\* name is T followed by " (GAMMA)"
HasFriendlyMarker(name) == EndsWith(name, FriendlyMarker)

WithoutMarker(name) == SubSeq(name, 1, Len(name) - Len(FriendlyMarker))

\* C24: a trailing friendly marker is stripped:
\* normalize_team_name(T + " (GAMMA)") = normalize_team_name(T).
C24_FriendlyMarkerStripped ==
    npc # "names" =>
        /\ HasFriendlyMarker(name1) =>
              normalized[1] = normalize_team_name(WithoutMarker(name1))
        /\ HasFriendlyMarker(name2) =>
              normalized[2] = normalize_team_name(WithoutMarker(name2))


(***************************************************************************)
(* The best match among a list of candidates.                              *)
(***************************************************************************)
\* the similarity score of a candidate to the target
ScoreOf(candidate) ==
    token_sort_ratio(normalize_team_name(best_target),
                     normalize_team_name(candidate))

\* position k holds the earliest of the highest-scoring candidates among the
\* positions ks
EarliestHighest(k, ks) ==
    /\ k \in ks
    /\ \A m \in ks :
          /\ RatLeq(ScoreOf(best_candidates[m]), ScoreOf(best_candidates[k]))
          /\ m < k => ScoreOf(best_candidates[m]) # ScoreOf(best_candidates[k])

\* get_best_match returned the candidate at position k with its score
Returned(k) ==
    best_result = [best_match |-> <<best_candidates[k]>>,
                   best_score |-> ScoreOf(best_candidates[k])]

Eligible ==
    {k \in 1..Len(best_candidates) :
        /\ normalize_team_name(best_candidates[k]) # <<>>
        /\ RatLess(Zero, ScoreOf(best_candidates[k]))}

C26_EqualityFastPath ==
    npc = "compared" =>
        /\ normalized[1] = normalized[2] => matched = TRUE
        /\ (normalized[1] = <<>>) # (normalized[2] = <<>>) => matched = FALSE

\* two different names whose normalized forms are both empty were compared
C26_Witness ==
    /\ npc = "compared"
    /\ name1 # name2
    /\ normalized = <<<<>>, <<>>>>
    /\ matched = TRUE


(***************************************************************************)
(* Malformed input of a detection run.                                     *)
(***************************************************************************)
\* the lines of the input that hold a purified event
WellFormedLines ==
    {k \in 1..Len(input_file.lines) : input_file.lines[k].kind = "event"}

\* the positions of the lines with an executable opportunity, in file order
ExecutableLines ==
    SelectSeq([k \in 1..Len(input_file.lines) |-> k], ExecutableLine)

\* the record find_all_arbitrage_opportunities builds for line k
OpportunityOf(k) ==
    LET best == find_best_odds(input_file.lines[k].events)
    IN  Opportunity(k, best, calculate_arbitrage(best, 1000))

\* an outcome of line k has no quote at all
MissingMarketData(k) ==
    /\ input_file.lines[k].kind = "event"
    /\ OddsMissing(find_best_odds(input_file.lines[k].events))

\* C27: find_all_arbitrage_opportunities passes over a line that is not
\* JSON and a fixture group with missing market data and still processes
\* every other line: it reads the file to its end, computes every
\* well-formed line, and returns exactly the executable opportunities of
\* the well-formed lines in file order.
C27_MalformedInputSkipped ==
    (dpc = "found" /\ input_file.exists) =>
        /\ line_num = Len(input_file.lines) + 1
        /\ DOMAIN computed = WellFormedLines
        /\ \A k \in WellFormedLines :
              MissingMarketData(k) => computed[k] = NoArbitrage
        /\ opportunities =
              [m \in 1..Len(ExecutableLines) |-> OpportunityOf(ExecutableLines[m])]

\* a line that is not JSON and a group with missing market data come before
\* an executable fixture, which is returned
C27_Witness ==
    /\ dpc = "found"
    /\ \E k1 \in 1..Len(input_file.lines) :
          \E k2 \in 1..Len(input_file.lines) :
              \E k3 \in 1..Len(input_file.lines) :
                  /\ k1 < k3
                  /\ k2 < k3
                  /\ input_file.lines[k1].kind = "invalid"
                  /\ MissingMarketData(k2)
                  /\ ExecutableLine(k3)
                  /\ opportunities = <<OpportunityOf(k3)>>


(***************************************************************************)
(* The reference bookmaker of match_events.                                *)
(***************************************************************************)
\* some record of the reference bookmaker matches the event
ListedByReference(event) ==
    \E k \in 1..Len(first_events) : Matches(mode, first_events[k], event)

\* the bookmakers other than the reference
OtherBookmakers == DOMAIN events_by_bookmaker \ {first_bookmaker}

\* C28: match_events seeds from the first bookmaker in the key order of the
\* input mapping, whatever the sizes of the lists; every group it returns
\* holds a record of that bookmaker, and a record of another bookmaker that
\* no record of the first bookmaker matches is in no group returned.
C28_SeedsFromFirstKey ==
    (mode = "match" /\ bookmaker_names # <<>>) =>
        /\ bookmaker_names = InputKeys(events_by_bookmaker)
        /\ first_bookmaker = BookmakerKeys[1]
        /\ \A g \in Range(purified_events) :
              \E e \in Range(g.bookmaker_events) : e.booker = first_bookmaker
        /\ \A b \in OtherBookmakers :
              \A idx \in 1..Len(events_by_bookmaker[b]) :
                  ~ListedByReference(events_by_bookmaker[b][idx]) =>
                      \A g \in Range(purified_events) :
                          [booker |-> b, idx |-> idx]
                              \notin Range(g.bookmaker_events)

\* match_events has returned a group although another bookmaker has more
\* records than the first, and two other bookmakers list the same fixture,
\* with the same names and start, that the first bookmaker does not list
C28_Witness ==
    /\ mode = "match"
    /\ mpc = "done"
    /\ purified_events # <<>>
    /\ \E b \in OtherBookmakers : EventCount(b) > EventCount(first_bookmaker)
    /\ \E b1 \in OtherBookmakers : \E b2 \in OtherBookmakers :
          /\ b1 # b2
          /\ \E e \in Range(events_by_bookmaker[b1]) :
                /\ e \in Range(events_by_bookmaker[b2])
                /\ ~ListedByReference(e)


(***************************************************************************)
(* Membership of a group.                                                  *)
(***************************************************************************)
\* the seed record of a group
SeedOf(group) == first_events[group.seed]

\* C29: in every group built by purify_events or match_events, every record
\* other than the seed satisfies the match predicate against the seed; the
\* records of a group need not match each other.
C29_MembersMatchSeed ==
    /\ \A g \in GroupsBuilt \cup Range(purified_events) :
          \A e \in Range(g.bookmaker_events) :
              e # SeedEntry(g) => Matches(mode, SeedOf(g), EventOf(e))
    /\ \A a \in added :
          a.booker # first_bookmaker =>
              Matches(mode, first_events[a.seed], EventOf(a))

\* a group was returned with two members that do not match each other,
\* each of them matching the seed
C29_Witness ==
    \E g \in Range(purified_events) :
        \E e1 \in Range(g.bookmaker_events) :
            \E e2 \in Range(g.bookmaker_events) :
                /\ e1 # SeedEntry(g)
                /\ e2 # SeedEntry(g)
                /\ ~Matches(mode, EventOf(e1), EventOf(e2))
                /\ Matches(mode, SeedOf(g), EventOf(e1))
                /\ Matches(mode, SeedOf(g), EventOf(e2))


(***************************************************************************)
(* A detection run that finds nothing.                                     *)
(***************************************************************************)
\* this step writes the opportunities file or calls the webhook
WritesOrSends ==
    \/ output_file' # output_file
    \/ payload' # payload
    \/ response' # response
    \/ webhook_success' # webhook_success

\* the run has found at least one opportunity, all of them executable
FoundExecutable ==
    /\ opportunities # <<>>
    /\ \A k \in 1..Len(opportunities) : opportunities[k].is_executable

\* C30: a detection run that finds no executable opportunity, also because
\* its input file is missing, neither writes nor truncates the opportunities
\* file and does not call the webhook, so the file keeps what an earlier run
\* left in it; the file is written and the webhook called only in a run that
\* found at least one executable opportunity.
C30_NothingFoundNothingWritten ==
    /\ [](opportunities = <<>> =>
             /\ output_file \in EarlierOutputs
             /\ payload = <<>>
             /\ response = "unset"
             /\ webhook_success = "unset")
    /\ [][WritesOrSends => FoundExecutable]_vars

\* a finished run with a webhook configured that found only an opportunity
\* that is not executable: the file still holds the record of the earlier run
C30_Witness ==
    /\ dpc = "done"
    /\ N8N_WEBHOOK_URL # ""
    /\ opportunities = <<>>
    /\ \E k \in 1..Len(input_file.lines) : NonExecutableLine(k)
    /\ output_file.exists
    /\ output_file.records # <<>>
    /\ output_file \in EarlierOutputs
    /\ payload = <<>>


=============================================================================
